---- MODULE Spec2Model ----
(***************************************************************************)
(* Model of commet (github.com/yendefrr/commet): the bump resolver and the *)
(* version calculator of internal/version, the configuration of            *)
(* internal/config, the commit message parser of internal/parser, the tag  *)
(* lookup of internal/git, the run of the tool of cmd/commet and the       *)
(* changelog generator.                                                    *)
(*                                                                         *)
(* Text is modelled as a sequence of one-character strings, so that        *)
(* trimming, splitting, parsing and formatting are computed character by   *)
(* character as the Go code (and the libraries it calls) compute them.     *)
(***************************************************************************)
EXTENDS Integers, Sequences, FiniteSets, TLC

VARIABLES
    rules,      \* Config.BumpRules: map from commit type to bump
    format,     \* Config.Version.Format
    commits,    \* the []*parser.Commit argument
    current,    \* the version string argument (v1 of Compare)
    other,      \* the second version string argument (v2 of Compare)
    msg,        \* the commit message argument of Parse
    out,        \* what the last call returned
    messages,   \* the []string argument of ParseMultiple
    recv,       \* the receiver of Commit.String
    cfgFile,    \* the configuration file run loads, as written
    dryRun,     \* the --dry-run flag
    isRepo,     \* whether the working directory is a git repository
    tags,       \* the names of the tags of the repository
    log,        \* the messages of the commits GetCommits walks, newest first
    files,      \* the version files on disk: what each holds
    head,       \* the commits run has created, oldest first
    pc,         \* the position of run
    cfg,        \* run: the loaded configuration
    currentVersion, \* run: the detected version
    parsedCommits,  \* run: the commits that parsed to a type
    newVersion,     \* run: the calculated version
    bumpType,       \* run: the calculated bump
    updatedFiles,   \* run: the files written so far
    err,            \* run: the error returned, none while running
    changelog       \* the changelog file: whether it exists and what it holds

\* the arguments of ParseMultiple and Commit.String
parseVars == <<messages, recv>>

\* the state of a run of the tool and of what it works on
runVars ==
    <<cfgFile, dryRun, isRepo, tags, log, files, head, pc, cfg, currentVersion,
      parsedCommits, newVersion, bumpType, updatedFiles, err>>

vars ==
    <<rules, format, commits, current, other, msg, out, parseVars, runVars,
      changelog>>

(***************************************************************************)
(* Bounds of the model.                                                    *)
(***************************************************************************)
MaxCommits == 3
MaxVerLen  == 4
MaxPart    == 1
MaxBoardPart == 2
MaxMessages == 3
MaxLines == 3
MaxGenerations == 2

(***************************************************************************)
(* Text helpers.                                                           *)
(***************************************************************************)
Digits == {"0", "1", "2", "3", "4", "5", "6", "7", "8", "9"}

\* all texts over the characters cs of length at most n
TextsUpTo(cs, n) == UNION {[1..k -> cs] : k \in 0..n}

\* s[from..] ; the empty text when from is past the end
Drop(s, from) == SubSeq(s, from, Len(s))

\* strings.HasPrefix
HasPrefix(s, p) == Len(s) >= Len(p) /\ SubSeq(s, 1, Len(p)) = p

\* strings.TrimPrefix: s without the leading p, s itself when p does not lead
TrimPrefix(s, p) == IF HasPrefix(s, p) THEN Drop(s, Len(p) + 1) ELSE s

(***************************************************************************)
(* internal/config: bump kinds and the rule table.                         *)
(***************************************************************************)
BumpNone  == "none"
BumpPatch == "patch"
BumpMinor == "minor"
BumpMajor == "major"

BumpKinds == {BumpNone, BumpPatch, BumpMinor, BumpMajor}

\* Config.GetBumpType: exact lookup in the map, none when the key is absent
GetBumpType(rs, commitType) ==
    IF commitType \in DOMAIN rs THEN rs[commitType] ELSE BumpNone

(***************************************************************************)
(* internal/version: the bump resolver.                                    *)
(***************************************************************************)
\* the precedence map of maxBump; a key that is not in a Go map reads as 0
precedence(b) ==
    CASE b = BumpMajor -> 3
      [] b = BumpMinor -> 2
      [] b = BumpPatch -> 1
      [] b = BumpNone  -> 0
      [] OTHER         -> 0

\* a maximum that keeps the later bump
maxBumpLast(a, b) == b

\* a maximum that keeps the first bump that is not none
maxBumpFirst(a, b) == IF a # BumpNone THEN a ELSE b

maxBump(a, b) == IF precedence(a) > precedence(b) THEN a ELSE b

\* the loop of DetermineBump from commit i on, with the accumulated bump
RECURSIVE DetermineBumpFrom(_, _, _, _)
DetermineBumpFrom(rs, cs, i, bump) ==
    IF i > Len(cs) THEN bump
    ELSE IF cs[i].ForceMajor THEN BumpMajor
    ELSE DetermineBumpFrom(rs, cs, i + 1,
                           maxBump(bump, GetBumpType(rs, cs[i].Type)))

\* a resolver that forgets the force-major flag
DetermineBumpNoForce(rs, cs) ==
    DetermineBumpFrom(rs, [i \in 1..Len(cs) |-> [cs[i] EXCEPT !.ForceMajor = FALSE]],
                      1, BumpNone)

\* Calculator.DetermineBump
DetermineBump(rs, cs) == DetermineBumpFrom(rs, cs, 1, BumpNone)

(***************************************************************************)
(* github.com/Masterminds/semver/v3 as internal/version uses it.  A        *)
(* Version is the record of its major, minor and patch numbers, its        *)
(* pre-release text and its build metadata text.  Numbers are far below    *)
(* 2^64, the width strconv.ParseUint is called with.                       *)
(***************************************************************************)
Letters ==
    {"a", "b", "c", "d", "e", "f", "g", "h", "i", "j", "k", "l", "m",
     "n", "o", "p", "q", "r", "s", "t", "u", "v", "w", "x", "y", "z",
     "A", "B", "C", "D", "E", "F", "G", "H", "I", "J", "K", "L", "M",
     "N", "O", "P", "Q", "R", "S", "T", "U", "V", "W", "X", "Y", "Z"}

DigitChars == <<"0", "1", "2", "3", "4", "5", "6", "7", "8", "9">>

\* the value of a digit character
DigitVal(c) == (CHOOSE i \in 1..10 : DigitChars[i] = c) - 1

\* strconv.ParseUint(s, 10, 64) of a text of digits
RECURSIVE ParseUint(_)
ParseUint(s) ==
    IF Len(s) = 0 THEN 0
    ELSE ParseUint(SubSeq(s, 1, Len(s) - 1)) * 10 + DigitVal(s[Len(s)])

\* fmt's %d of a number that is not negative
RECURSIVE FormatUint(_)
FormatUint(n) ==
    IF n < 10 THEN <<DigitChars[n + 1]>>
    ELSE FormatUint(n \div 10) \o <<DigitChars[(n % 10) + 1]>>

\* the first position from i on that holds no character of cs
RECURSIVE SkipWhile(_, _, _)
SkipWhile(s, i, cs) ==
    IF i <= Len(s) /\ s[i] \in cs THEN SkipWhile(s, i + 1, cs) ELSE i

\* the first position from i on that holds the character c, Len(s)+1 if none
RECURSIVE IndexFrom(_, _, _)
IndexFrom(s, i, c) ==
    IF i <= Len(s) /\ s[i] # c THEN IndexFrom(s, i + 1, c) ELSE i

\* [0-9A-Za-z\-]+(\.[0-9A-Za-z\-]+)* : identifiers joined by dots
IsDottedIdents(t) ==
    /\ Len(t) > 0
    /\ \A i \in 1..Len(t) : t[i] \in Digits \cup Letters \cup {"-", "."}
    /\ t[1] # "." /\ t[Len(t)] # "."
    /\ \A i \in 1..(Len(t) - 1) : ~(t[i] = "." /\ t[i + 1] = ".")

NoVersion == [major |-> 0, minor |-> 0, patch |-> 0, pre |-> <<>>, metadata |-> <<>>]

\* the match of (\.[0-9]+)? at position i: the position after it and the
\* digits matched (none when the group does not take part in the match)
DotNumber(s, i) ==
    IF i <= Len(s) /\ s[i] = "." /\ SkipWhile(s, i + 1, Digits) > i + 1
    THEN [next |-> SkipWhile(s, i + 1, Digits),
          digits |-> SubSeq(s, i + 1, SkipWhile(s, i + 1, Digits) - 1)]
    ELSE [next |-> i, digits |-> <<>>]

\* semver.NewVersion: the whole text must match
\*   v?([0-9]+)(\.[0-9]+)?(\.[0-9]+)?(-PRE)?(\+META)?
\* and the numbers missing after the first read as zero
NewVersion(s) ==
    LET i0    == IF Len(s) > 0 /\ s[1] = "v" THEN 2 ELSE 1
        i1    == SkipWhile(s, i0, Digits)
        min   == DotNumber(s, i1)
        pat   == DotNumber(s, min.next)
        i3    == pat.next
        hasPre == i3 <= Len(s) /\ s[i3] = "-"
        i4    == IF hasPre THEN IndexFrom(s, i3 + 1, "+") ELSE i3
        pre   == IF hasPre THEN SubSeq(s, i3 + 1, i4 - 1) ELSE <<>>
        hasMeta == i4 <= Len(s) /\ s[i4] = "+"
        meta  == IF hasMeta THEN Drop(s, i4 + 1) ELSE <<>>
        i5    == IF hasMeta THEN Len(s) + 1 ELSE i4
        ok    == /\ i1 > i0
                 /\ hasPre => IsDottedIdents(pre)
                 /\ hasMeta => IsDottedIdents(meta)
                 /\ i5 = Len(s) + 1
    IN  IF ok
        THEN [ok |-> TRUE,
              ver |-> [major |-> ParseUint(SubSeq(s, i0, i1 - 1)),
                       minor |-> ParseUint(min.digits),
                       patch |-> ParseUint(pat.digits),
                       pre |-> pre, metadata |-> meta]]
        ELSE [ok |-> FALSE, ver |-> NoVersion]

\* Version.String: MAJOR.MINOR.PATCH[-PRE][+META], never a leading v
VersionString(v) ==
    FormatUint(v.major) \o <<".">> \o FormatUint(v.minor) \o <<".">>
        \o FormatUint(v.patch)
        \o (IF v.pre # <<>> THEN <<"-">> \o v.pre ELSE <<>>)
        \o (IF v.metadata # <<>> THEN <<"+">> \o v.metadata ELSE <<>>)

\* Version.IncMajor
IncMajor(v) ==
    [major |-> v.major + 1, minor |-> 0, patch |-> 0, pre |-> <<>>, metadata |-> <<>>]

\* an increment of the minor number that keeps the patch number
IncMinorKeepPatch(v) ==
    [major |-> v.major, minor |-> v.minor + 1, patch |-> v.patch, pre |-> <<>>,
     metadata |-> <<>>]

\* Version.IncMinor
IncMinor(v) ==
    [major |-> v.major, minor |-> v.minor + 1, patch |-> 0, pre |-> <<>>,
     metadata |-> <<>>]

\* a patch increment that only drops the pre-release part and the metadata
IncPatchRelease(v) ==
    [major |-> v.major, minor |-> v.minor, patch |-> v.patch,
     pre |-> <<>>, metadata |-> <<>>]

\* Version.IncPatch: a pre-release version becomes its release, any other
\* version gets the next patch number
IncPatch(v) ==
    [major |-> v.major, minor |-> v.minor,
     patch |-> IF v.pre # <<>> THEN v.patch ELSE v.patch + 1,
     pre |-> <<>>, metadata |-> <<>>]

\* the characters of identifiers in the order of their byte values
ByteOrder ==
    <<"-", ".", "0", "1", "2", "3", "4", "5", "6", "7", "8", "9",
      "A", "B", "C", "D", "E", "F", "G", "H", "I", "J", "K", "L", "M",
      "N", "O", "P", "Q", "R", "S", "T", "U", "V", "W", "X", "Y", "Z",
      "a", "b", "c", "d", "e", "f", "g", "h", "i", "j", "k", "l", "m",
      "n", "o", "p", "q", "r", "s", "t", "u", "v", "w", "x", "y", "z">>

ByteRank(c) == CHOOSE i \in 1..Len(ByteOrder) : ByteOrder[i] = c

\* Go's s > o on strings: bytewise, a proper prefix being the smaller
RECURSIVE TextGreater(_, _)
TextGreater(s, o) ==
    IF Len(s) = 0 THEN FALSE
    ELSE IF Len(o) = 0 THEN TRUE
    ELSE IF s[1] # o[1] THEN ByteRank(s[1]) > ByteRank(o[1])
    ELSE TextGreater(Tail(s), Tail(o))

\* strings.Split(s, "."): the texts between the dots
RECURSIVE SplitDots(_)
SplitDots(s) ==
    LET i == IndexFrom(s, 1, ".")
    IN  IF i > Len(s) THEN <<s>>
        ELSE <<SubSeq(s, 1, i - 1)>> \o SplitDots(Drop(s, i + 1))

IsNumber(t) == Len(t) > 0 /\ \A i \in 1..Len(t) : t[i] \in Digits

\* comparePrePart: numbers by value and below texts, texts bytewise
comparePrePart(s, o) ==
    IF s = o THEN 0
    ELSE IF s = <<>> THEN -1
    ELSE IF o = <<>> THEN 1
    ELSE IF ~IsNumber(o) /\ ~IsNumber(s)
         THEN (IF TextGreater(s, o) THEN 1 ELSE -1)
    ELSE IF ~IsNumber(o) THEN -1
    ELSE IF ~IsNumber(s) THEN 1
    ELSE IF ParseUint(s) > ParseUint(o) THEN 1 ELSE -1

\* the loop of comparePrerelease from identifier i on
RECURSIVE comparePrereleaseFrom(_, _, _)
comparePrereleaseFrom(sparts, oparts, i) ==
    IF i > Len(sparts) /\ i > Len(oparts) THEN 0
    ELSE LET stemp == IF i <= Len(sparts) THEN sparts[i] ELSE <<>>
             otemp == IF i <= Len(oparts) THEN oparts[i] ELSE <<>>
             d     == comparePrePart(stemp, otemp)
         IN  IF d # 0 THEN d ELSE comparePrereleaseFrom(sparts, oparts, i + 1)

\* comparePrerelease
comparePrerelease(v, o) == comparePrereleaseFrom(SplitDots(v), SplitDots(o), 1)

\* compareSegment
compareSegment(v, o) == IF v < o THEN -1 ELSE IF v > o THEN 1 ELSE 0

\* a comparison that stops after the minor number
VersionCompareNoPatch(v, o) ==
    IF compareSegment(v.major, o.major) # 0 THEN compareSegment(v.major, o.major)
    ELSE compareSegment(v.minor, o.minor)

\* Version.Compare: the numbers, then the pre-release parts; the build
\* metadata is not looked at
VersionCompare(v, o) ==
    IF compareSegment(v.major, o.major) # 0 THEN compareSegment(v.major, o.major)
    ELSE IF compareSegment(v.minor, o.minor) # 0 THEN compareSegment(v.minor, o.minor)
    ELSE IF compareSegment(v.patch, o.patch) # 0 THEN compareSegment(v.patch, o.patch)
    ELSE IF v.pre = <<>> /\ o.pre = <<>> THEN 0
    ELSE IF v.pre = <<>> THEN 1
    ELSE IF o.pre = <<>> THEN -1
    ELSE comparePrerelease(v.pre, o.pre)

(***************************************************************************)
(* internal/version: the calculator.                                       *)
(***************************************************************************)
\* Calculator.parseVersion
parseVersion(versionStr) == NewVersion(TrimPrefix(versionStr, <<"v">>))

\* a formatter that never writes the prefix
formatVersionBare(fmt, ver) == VersionString(ver)

\* Calculator.formatVersion
formatVersion(fmt, ver) ==
    IF fmt = "v-prefix" THEN <<"v">> \o VersionString(ver) ELSE VersionString(ver)

\* a calculator that writes the parsed version back when there is no bump
CalculateReserialize(rs, fmt, cur, cs) ==
    LET parsed == parseVersion(cur)
        bump   == DetermineBump(rs, cs)
        ver    == CASE bump = BumpMajor -> IncMajor(parsed.ver)
                    [] bump = BumpMinor -> IncMinor(parsed.ver)
                    [] bump = BumpPatch -> IncPatch(parsed.ver)
                    [] OTHER -> parsed.ver
    IN  IF ~parsed.ok
        THEN [version |-> <<>>, bump |-> BumpNone, err |-> TRUE]
        ELSE [version |-> formatVersion(fmt, ver),
              bump |-> IF bump \in {BumpMajor, BumpMinor, BumpPatch} THEN bump
                       ELSE BumpNone,
              err |-> FALSE]

\* a calculator that looks at the bump before it looks at the parse error
CalculateBumpFirst(rs, fmt, cur, cs) ==
    LET parsed == parseVersion(cur)
        bump   == DetermineBump(rs, cs)
    IN  IF bump \notin {BumpMajor, BumpMinor, BumpPatch}
        THEN [version |-> cur, bump |-> BumpNone, err |-> FALSE]
        ELSE IF ~parsed.ok
        THEN [version |-> <<>>, bump |-> BumpNone, err |-> TRUE]
        ELSE [version |-> formatVersion(fmt,
                             CASE bump = BumpMajor -> IncMajor(parsed.ver)
                               [] bump = BumpMinor -> IncMinor(parsed.ver)
                               [] OTHER -> IncPatch(parsed.ver)),
              bump |-> bump, err |-> FALSE]

\* Calculator.Calculate: the version, the bump and whether an error is returned
Calculate(rs, fmt, cur, cs) ==
    LET parsed == parseVersion(cur)
        bump   == DetermineBump(rs, cs)
    IN  IF ~parsed.ok
        THEN [version |-> <<>>, bump |-> BumpNone, err |-> TRUE]
        ELSE CASE bump = BumpMajor ->
                    [version |-> formatVersion(fmt, IncMajor(parsed.ver)),
                     bump |-> bump, err |-> FALSE]
               [] bump = BumpMinor ->
                    [version |-> formatVersion(fmt, IncMinor(parsed.ver)),
                     bump |-> bump, err |-> FALSE]
               [] bump = BumpPatch ->
                    [version |-> formatVersion(fmt, IncPatch(parsed.ver)),
                     bump |-> bump, err |-> FALSE]
               [] OTHER ->
                    [version |-> cur, bump |-> BumpNone, err |-> FALSE]

\* a validity test that leaves the prefix to the library
IsValidNoTrim(versionStr) == NewVersion(versionStr).ok

\* IsValid
IsValid(versionStr) == NewVersion(TrimPrefix(versionStr, <<"v">>)).ok

\* Compare: the result and whether an error is returned
Compare(v1, v2) ==
    LET ver1 == NewVersion(TrimPrefix(v1, <<"v">>))
        ver2 == NewVersion(TrimPrefix(v2, <<"v">>))
    IN  IF ~ver1.ok THEN [value |-> 0, err |-> TRUE]
        ELSE IF ~ver2.ok THEN [value |-> 0, err |-> TRUE]
        ELSE [value |-> VersionCompare(ver1.ver, ver2.ver), err |-> FALSE]

(***************************************************************************)
(* Go's regexp as internal/parser uses it: a pattern is a sequence of      *)
(* items, matched by backtracking, which is the match FindStringSubmatch   *)
(* returns (leftmost, and among those the one a backtracking matcher finds *)
(* first).  A character class is a set of characters, or all but a set.    *)
(***************************************************************************)
UpperLetters ==
    {"A", "B", "C", "D", "E", "F", "G", "H", "I", "J", "K", "L", "M",
     "N", "O", "P", "Q", "R", "S", "T", "U", "V", "W", "X", "Y", "Z"}

ClassUpper    == [neg |-> FALSE, set |-> UpperLetters]                \* [A-Z]
ClassDigit    == [neg |-> FALSE, set |-> Digits]                      \* \d
ClassWord     == [neg |-> FALSE, set |-> Letters \cup Digits \cup {"_"}] \* \w
ClassSpace    == [neg |-> FALSE, set |-> {"\t", "\n", "\f", "\r", " "}] \* \s
ClassNotClose == [neg |-> TRUE, set |-> {")"}]                        \* [^)]
ClassNotGt    == [neg |-> TRUE, set |-> {">"}]                        \* [^>]
ClassAny      == [neg |-> TRUE, set |-> {"\n"}]                       \* .

InClass(c, cls) == (c \in cls.set) # cls.neg

\* the items of a pattern
Begin        == [k |-> "begin"]                       \* ^
End          == [k |-> "end"]                         \* $
Lit(t)       == [k |-> "lit", text |-> t]             \* the text itself
Rep(cls, n)  == [k |-> "rep", cls |-> cls, min |-> n] \* cls* (n = 0), cls+ (n = 1)
Opt(body)    == [k |-> "opt", body |-> body]          \* (?:body)?
Cap(nm, body) == [k |-> "cap", name |-> nm, body |-> body] \* (?P<nm>body)
CapEnd(nm, from) == [k |-> "capend", name |-> nm, from |-> from]

NoMatch == [ok |-> FALSE]

NoCaptures ==
    [board |-> <<>>, scope |-> <<>>, type |-> <<>>, desc |-> <<>>, force |-> <<>>,
     first |-> <<>>]

\* the number of characters of cls that s holds from pos on
RECURSIVE RunLength(_, _, _)
RunLength(s, pos, cls) ==
    IF pos <= Len(s) /\ InClass(s[pos], cls) THEN 1 + RunLength(s, pos + 1, cls)
    ELSE 0

RECURSIVE MatchItems(_, _, _, _)
RECURSIVE MatchRep(_, _, _, _, _, _)

\* the match of the items at pos, with the groups matched so far
MatchItems(items, s, pos, caps) ==
    IF items = <<>> THEN [ok |-> TRUE, caps |-> caps]
    ELSE LET it   == Head(items)
             rest == Tail(items)
         IN  CASE it.k = "begin" ->
                    IF pos = 1 THEN MatchItems(rest, s, pos, caps) ELSE NoMatch
               [] it.k = "end" ->
                    IF pos = Len(s) + 1 THEN MatchItems(rest, s, pos, caps)
                    ELSE NoMatch
               [] it.k = "lit" ->
                    IF /\ pos + Len(it.text) - 1 <= Len(s)
                       /\ SubSeq(s, pos, pos + Len(it.text) - 1) = it.text
                    THEN MatchItems(rest, s, pos + Len(it.text), caps)
                    ELSE NoMatch
               [] it.k = "rep" ->
                    MatchRep(rest, s, pos, RunLength(s, pos, it.cls), it.min, caps)
               [] it.k = "opt" ->
                    LET with == MatchItems(it.body \o rest, s, pos, caps)
                    IN  IF with.ok THEN with ELSE MatchItems(rest, s, pos, caps)
               [] it.k = "cap" ->
                    MatchItems(it.body \o <<CapEnd(it.name, pos)>> \o rest,
                               s, pos, caps)
               [] it.k = "capend" ->
                    MatchItems(rest, s, pos,
                               [caps EXCEPT ![it.name] = SubSeq(s, it.from, pos - 1)])

\* a greedy repetition: the longest run first, then shorter ones
MatchRep(rest, s, pos, n, min, caps) ==
    IF n < min THEN NoMatch
    ELSE LET r == MatchItems(rest, s, pos + n, caps)
         IN  IF r.ok THEN r ELSE MatchRep(rest, s, pos, n - 1, min, caps)

\* the loop of FindStringSubmatch over the positions a match may start at
RECURSIVE FindFrom(_, _, _)
FindFrom(items, s, pos) ==
    IF pos > Len(s) + 1 THEN NoMatch
    ELSE LET r == MatchItems(items, s, pos, NoCaptures)
         IN  IF r.ok THEN r ELSE FindFrom(items, s, pos + 1)

\* Regexp.FindStringSubmatch: the groups of the match, a group that took no
\* part in it being empty
FindStringSubmatch(re, s) == FindFrom(re.items, s, 1)

(***************************************************************************)
(* internal/parser.                                                        *)
(***************************************************************************)
\* a board group that takes letters of either case: (?P<board>[A-Za-z]+-\d+)
BoardGroupAnyCase ==
    Cap("board", <<Rep([neg |-> FALSE, set |-> Letters], 1), Lit(<<"-">>),
                   Rep(ClassDigit, 1)>>)

\* (?P<board>[A-Z]+-\d+)
BoardGroup == Cap("board", <<Rep(ClassUpper, 1), Lit(<<"-">>), Rep(ClassDigit, 1)>>)

\* a scope group that stops at a comma: \((?P<scope>[^),]+)\)
ScopeGroupNoComma ==
    <<Lit(<<"(">>), Cap("scope", <<Rep([neg |-> TRUE, set |-> {")", ","}], 1)>>),
      Lit(<<")">>)>>

\* \((?P<scope>[^)]+)\)
ScopeGroup == <<Lit(<<"(">>), Cap("scope", <<Rep(ClassNotClose, 1)>>), Lit(<<")">>)>>

\* ^(?P<board>[A-Z]+-\d+)(?:\((?P<scope>[^)]+)\))?: <(?P<type>[^>]+)>\s*(?P<desc>.+)$
pattern1 ==
    [names |-> <<"board", "scope", "type", "desc">>,
     items |-> <<Begin, BoardGroup, Opt(ScopeGroup), Lit(<<":", " ", "<">>),
                 Cap("type", <<Rep(ClassNotGt, 1)>>), Lit(<<">">>),
                 Rep(ClassSpace, 0), Cap("desc", <<Rep(ClassAny, 1)>>), End>>]

\* ^(?P<board>[A-Z]+-\d+)\((?P<scope>[^)]+)\): (?P<type>\w+)\s+(?P<desc>.+)$
pattern2 ==
    [names |-> <<"board", "scope", "type", "desc">>,
     items |-> <<Begin, BoardGroup>> \o ScopeGroup \o
               <<Lit(<<":", " ">>), Cap("type", <<Rep(ClassWord, 1)>>),
                 Rep(ClassSpace, 1), Cap("desc", <<Rep(ClassAny, 1)>>), End>>]

\* ^(?P<board>[A-Z]+-\d+): (?P<type>\w+)\s+(?P<desc>.+)$
pattern3 ==
    [names |-> <<"board", "type", "desc">>,
     items |-> <<Begin, BoardGroup, Lit(<<":", " ">>),
                 Cap("type", <<Rep(ClassWord, 1)>>),
                 Rep(ClassSpace, 1), Cap("desc", <<Rep(ClassAny, 1)>>), End>>]

\* a generic pattern whose type takes hyphens too:
\* ^(?P<type>[\w-]+)(?P<force>!)?(?:\((?P<scope>[^)]+)\))?: (?P<desc>.+)$
pattern4DashType ==
    [names |-> <<"type", "force", "scope", "desc">>,
     items |-> <<Begin,
                 Cap("type", <<Rep([neg |-> FALSE, set |-> ClassWord.set \cup {"-"}], 1)>>),
                 Opt(<<Cap("force", <<Lit(<<"!">>)>>)>>), Opt(ScopeGroup),
                 Lit(<<":", " ">>), Cap("desc", <<Rep(ClassAny, 1)>>), End>>]

\* ^(?P<type>\w+)(?P<force>!)?(?:\((?P<scope>[^)]+)\))?: (?P<desc>.+)$
pattern4 ==
    [names |-> <<"type", "force", "scope", "desc">>,
     items |-> <<Begin, Cap("type", <<Rep(ClassWord, 1)>>),
                 Opt(<<Cap("force", <<Lit(<<"!">>)>>)>>), Opt(ScopeGroup),
                 Lit(<<":", " ">>), Cap("desc", <<Rep(ClassAny, 1)>>), End>>]

\* the patterns in the order they are tried
patterns == <<pattern1, pattern2, pattern3, pattern4>>

\* the characters strings.TrimSpace removes, among those of the model
SpaceChars == {" ", "\t", "\n", "\f", "\r"}

\* strings.TrimSpace
RECURSIVE TrimSpace(_)
TrimSpace(s) ==
    IF Len(s) = 0 THEN s
    ELSE IF s[1] \in SpaceChars THEN TrimSpace(Tail(s))
    ELSE IF s[Len(s)] \in SpaceChars THEN TrimSpace(SubSeq(s, 1, Len(s) - 1))
    ELSE s

\* strings.Contains
Contains(s, sub) ==
    \E i \in 1..(Len(s) - Len(sub) + 1) : SubSeq(s, i, i + Len(sub) - 1) = sub

\* strings.HasSuffix
HasSuffix(s, x) ==
    Len(s) >= Len(x) /\ SubSeq(s, Len(s) - Len(x) + 1, Len(s)) = x

\* strings.TrimSuffix
TrimSuffix(s, x) == IF HasSuffix(s, x) THEN SubSeq(s, 1, Len(s) - Len(x)) ELSE s

TextBreaking      == <<"B", "r", "e", "a", "k", "i", "n", "g">>
TextBREAKING      == <<"B", "R", "E", "A", "K", "I", "N", "G">>

\* a start without the scan for the two words
StartCommitNoScan(message) ==
    [Hash |-> <<>>, Message |-> message, Type |-> <<>>, Scope |-> <<>>,
     Board |-> <<>>, Description |-> <<>>, ForceMajor |-> FALSE]

\* the commit Parse starts from: the message kept, the flag set by the scan
StartCommit(message) ==
    [Hash |-> <<>>, Message |-> message, Type |-> <<>>, Scope |-> <<>>,
     Board |-> <<>>, Description |-> <<>>,
     ForceMajor |-> LET m == TrimSpace(message)
                    IN  Contains(m, TextBreaking) \/ Contains(m, TextBREAKING)]

\* a loop over the group names that sets the type as it was matched
RECURSIVE SetFieldsNoTrim(_, _, _, _)
SetFieldsNoTrim(commit, names, i, caps) ==
    IF i > Len(names) THEN commit
    ELSE LET name  == names[i]
             value == caps[name]
         IN  SetFieldsNoTrim(
                 CASE name = "type"  -> [commit EXCEPT !.Type = value]
                   [] name = "scope" -> [commit EXCEPT !.Scope = value]
                   [] name = "board" -> [commit EXCEPT !.Board = value]
                   [] name = "desc"  -> [commit EXCEPT !.Description = value]
                   [] name = "force" ->
                        IF value = <<"!">> THEN [commit EXCEPT !.ForceMajor = TRUE]
                        ELSE commit,
                 names, i + 1, caps)

\* the loop of Parse over the group names of the pattern that matched
RECURSIVE SetFields(_, _, _, _)
SetFields(commit, names, i, caps) ==
    IF i > Len(names) THEN commit
    ELSE LET name  == names[i]
             value == caps[name]
         IN  SetFields(
                 CASE name = "type"  -> [commit EXCEPT !.Type = TrimSpace(value)]
                   [] name = "scope" -> [commit EXCEPT !.Scope = value]
                   [] name = "board" -> [commit EXCEPT !.Board = value]
                   [] name = "desc"  -> [commit EXCEPT !.Description = value]
                   [] name = "force" ->
                        IF value = <<"!">> THEN [commit EXCEPT !.ForceMajor = TRUE]
                        ELSE commit,
                 names, i + 1, caps)

\* a fallback that leaves the mark on the type
FallbackKeepMark(commit, message) ==
    LET i == IndexFrom(message, 1, ":")
    IN  IF i > Len(message) THEN commit
        ELSE LET possibleType == TrimSpace(SubSeq(message, 1, i - 1))
             IN  [commit EXCEPT
                    !.ForceMajor  = IF HasSuffix(possibleType, <<"!">>) THEN TRUE ELSE @,
                    !.Type        = possibleType,
                    !.Description = TrimSpace(Drop(message, i + 1))]

\* the fallback of Parse: the message split at its first colon
Fallback(commit, message) ==
    LET i == IndexFrom(message, 1, ":")
    IN  IF i > Len(message) THEN commit
        ELSE LET possibleType == TrimSpace(SubSeq(message, 1, i - 1))
                 forced       == HasSuffix(possibleType, <<"!">>)
             IN  [commit EXCEPT
                    !.ForceMajor  = IF forced THEN TRUE ELSE @,
                    !.Type        = IF forced THEN TrimSuffix(possibleType, <<"!">>)
                                    ELSE possibleType,
                    !.Description = TrimSpace(Drop(message, i + 1))]

\* the loop of Parse over the patterns from pattern i on; via tells which
\* pattern matched, 0 for the fallback
RECURSIVE ParseFrom(_, _, _, _)
ParseFrom(pats, commit, message, i) ==
    IF i > Len(pats) THEN [commit |-> Fallback(commit, message), via |-> 0]
    ELSE LET m == FindStringSubmatch(pats[i], message)
         IN  IF m.ok
             THEN [commit |-> SetFields(commit, pats[i].names, 1, m.caps), via |-> i]
             ELSE ParseFrom(pats, commit, message, i + 1)

\* Parse with the patterns tried in the order of pats
ParseWith(pats, message) ==
    ParseFrom(pats, StartCommit(message), TrimSpace(message), 1)

\* Parse: the commit (the error is always nil) and the pattern that matched
Parse(message) == ParseWith(patterns, message)

\* Commit.IsValidCommit
IsValidCommit(c) == c.Type # <<>>

\* the loop of a ParseMultiple that keeps every commit
RECURSIVE ParseMultipleKeepAll(_, _, _)
ParseMultipleKeepAll(ms, i, cs) ==
    IF i > Len(ms) THEN cs
    ELSE ParseMultipleKeepAll(ms, i + 1, Append(cs, Parse(ms[i]).commit))

\* the loop of ParseMultiple over the messages from ms[i] on
RECURSIVE ParseMultipleFrom(_, _, _)
ParseMultipleFrom(ms, i, cs) ==
    IF i > Len(ms) THEN cs
    ELSE LET c == Parse(ms[i]).commit
         IN  ParseMultipleFrom(ms, i + 1,
                               IF c.Type # <<>> THEN Append(cs, c) ELSE cs)

\* ParseMultiple
ParseMultiple(ms) == ParseMultipleFrom(ms, 1, <<>>)

\* strings.Join
RECURSIVE Join(_, _)
Join(parts, sep) ==
    IF Len(parts) = 0 THEN <<>>
    ELSE IF Len(parts) = 1 THEN parts[1]
    ELSE parts[1] \o sep \o Join(Tail(parts), sep)

\* a rendering that shows the mark of a commit without a type
StringMarkWithoutType(c) ==
    Join((IF c.Board # <<>> THEN <<c.Board>> ELSE <<>>)
         \o (IF c.Type # <<>> \/ c.ForceMajor
             THEN <<c.Type \o (IF c.ForceMajor THEN <<"!">> ELSE <<>>)>> ELSE <<>>)
         \o (IF c.Scope # <<>> THEN << <<"(">> \o c.Scope \o <<")">> >> ELSE <<>>)
         \o (IF c.Description # <<>> THEN <<c.Description>> ELSE <<>>),
         <<" ">>)

\* a rendering that leaves the scope out
StringNoScope(c) ==
    Join((IF c.Board # <<>> THEN <<c.Board>> ELSE <<>>)
         \o (IF c.Type # <<>>
             THEN <<c.Type \o (IF c.ForceMajor THEN <<"!">> ELSE <<>>)>> ELSE <<>>)
         \o (IF c.Description # <<>> THEN <<c.Description>> ELSE <<>>),
         <<" ">>)

\* Commit.String
String(c) ==
    Join((IF c.Board # <<>> THEN <<c.Board>> ELSE <<>>)
         \o (IF c.Type # <<>>
             THEN <<c.Type \o (IF c.ForceMajor THEN <<"!">> ELSE <<>>)>> ELSE <<>>)
         \o (IF c.Scope # <<>> THEN << <<"(">> \o c.Scope \o <<")">> >> ELSE <<>>)
         \o (IF c.Description # <<>> THEN <<c.Description>> ELSE <<>>),
         <<" ">>)

(***************************************************************************)
(* internal/config: the configuration and its loading.                     *)
(***************************************************************************)
\* the configuration before it is loaded
NoConfig == [loaded |-> FALSE]

\* no error
NoError == "nil"

\* ^v?([0-9]+\.[0-9]+\.[0-9]+)$ , the group being the first of the match
DefaultTagPattern ==
    [names |-> <<"first">>,
     items |-> <<Begin, Opt(<<Lit(<<"v">>)>>),
                 Cap("first", <<Rep(ClassDigit, 1), Lit(<<".">>), Rep(ClassDigit, 1),
                                Lit(<<".">>), Rep(ClassDigit, 1)>>),
                 End>>]

\* a pattern a configuration may set instead: ^v?(.+)$
LooseTagPattern ==
    [names |-> <<"first">>,
     items |-> <<Begin, Opt(<<Lit(<<"v">>)>>), Cap("first", <<Rep(ClassAny, 1)>>), End>>]

\* a pattern regexp.Compile rejects
BadTagPattern == [names |-> <<>>, items |-> <<[k |-> "bad"]>>]

\* regexp.Compile: whether the pattern compiles
Compiles(pattern) == pattern # BadTagPattern

\* the rule table of DefaultConfig
DefaultBumpRules ==
    (<<"F", "i", "x">> :> BumpPatch)
    @@ (<<"F", "e", "a", "t", "u", "r", "e">> :> BumpMinor)
    @@ (<<"R", "e", "f", "a", "c", "t", "o", "r">> :> BumpPatch)
    @@ (<<"S", "t", "y", "l", "e">> :> BumpNone)
    @@ (<<"D", "o", "c", "s">> :> BumpNone)
    @@ (<<"B", "u", "i", "l", "d">> :> BumpPatch)
    @@ (<<"T", "e", "s", "t", "s">> :> BumpNone)
    @@ (<<"B", "r", "e", "a", "k", "i", "n", "g">> :> BumpMajor)
    @@ (<<"!">> :> BumpMajor)

DefaultInitial == <<"0", ".", "1", ".", "0">>

DefaultStrategies == <<"git-tags", "version-file">>

\* DefaultConfig; the messages of the commit and of the tag are left out
DefaultConfig ==
    [loaded |-> TRUE,
     Version |-> [File |-> "composer.json", Key |-> "version",
                  Initial |-> DefaultInitial, Format |-> "semver"],
     BumpRules |-> DefaultBumpRules,
     Detection |-> [Strategies |-> DefaultStrategies,
                    TagPattern |-> DefaultTagPattern, ExcludeMerges |-> TRUE],
     Git |-> [AutoCommit |-> FALSE, AutoTag |-> FALSE, TagFormat |-> <<"v">>],
     AdditionalFiles |-> <<>>]

\* yaml.Unmarshal into the default configuration: a setting the file writes
\* replaces the default, the others stay; the rules the file writes are
\* added to the default table, and a null table leaves none
Unmarshal(c, written) ==
    LET has(k) == k \in DOMAIN written
    IN  [loaded |-> TRUE,
         Version |->
            [File    |-> IF has("file") THEN written["file"] ELSE c.Version.File,
             Key     |-> IF has("key") THEN written["key"] ELSE c.Version.Key,
             Initial |-> IF has("initial") THEN written["initial"]
                         ELSE c.Version.Initial,
             Format  |-> IF has("format") THEN written["format"]
                         ELSE c.Version.Format],
         BumpRules |-> IF ~has("bump_rules") THEN c.BumpRules
                       ELSE IF written["bump_rules"].null THEN <<>>
                       ELSE written["bump_rules"].table @@ c.BumpRules,
         Detection |->
            [Strategies |-> IF has("strategies") THEN written["strategies"]
                            ELSE c.Detection.Strategies,
             TagPattern |-> IF has("tag_pattern") THEN written["tag_pattern"]
                            ELSE c.Detection.TagPattern,
             ExcludeMerges |-> c.Detection.ExcludeMerges],
         Git |->
            [AutoCommit |-> IF has("auto_commit") THEN written["auto_commit"]
                            ELSE c.Git.AutoCommit,
             AutoTag    |-> IF has("auto_tag") THEN written["auto_tag"]
                            ELSE c.Git.AutoTag,
             TagFormat  |-> c.Git.TagFormat],
         AdditionalFiles |-> IF has("additional_files")
                             THEN written["additional_files"]
                             ELSE c.AdditionalFiles]

\* a validation that takes any format
ValidateAnyFormat(c) ==
    IF c.Version.File = "" THEN [err |-> "version.file is required", cfg |-> c]
    ELSE IF c.Version.Key = "" THEN [err |-> "version.key is required", cfg |-> c]
    ELSE IF DOMAIN c.BumpRules = {}
         THEN [err |-> "bump_rules cannot be empty", cfg |-> c]
    ELSE [err |-> NoError,
          cfg |-> [c EXCEPT
                     !.Version.Initial = IF @ = <<>> THEN DefaultInitial ELSE @,
                     !.Version.Format = IF @ = "" THEN "semver" ELSE @,
                     !.Detection.Strategies =
                         IF @ = <<>> THEN DefaultStrategies ELSE @]]

\* Config.Validate: the error, and the configuration with its defaults set
Validate(c) ==
    IF c.Version.File = "" THEN [err |-> "version.file is required", cfg |-> c]
    ELSE IF c.Version.Key = "" THEN [err |-> "version.key is required", cfg |-> c]
    ELSE LET fmt == IF c.Version.Format = "" THEN "semver" ELSE c.Version.Format
         IN  IF fmt # "semver" /\ fmt # "v-prefix"
             THEN [err |-> "version.format must be 'semver' or 'v-prefix'",
                   cfg |-> c]
             ELSE IF DOMAIN c.BumpRules = {}
             THEN [err |-> "bump_rules cannot be empty", cfg |-> c]
             ELSE [err |-> NoError,
                   cfg |-> [c EXCEPT
                              !.Version.Initial =
                                  IF @ = <<>> THEN DefaultInitial ELSE @,
                              !.Version.Format = fmt,
                              !.Detection.Strategies =
                                  IF @ = <<>> THEN DefaultStrategies ELSE @]]

\* Load: without a configuration file the defaults, else the file read into
\* the defaults and validated
Load(file) ==
    IF ~file.present THEN [err |-> NoError, cfg |-> DefaultConfig]
    ELSE IF ~file.readable
         THEN [err |-> "failed to read config file", cfg |-> NoConfig]
    ELSE LET v == Validate(Unmarshal(DefaultConfig, file.written))
         IN  IF v.err # NoError THEN [err |-> v.err, cfg |-> NoConfig]
             ELSE v

\* Config.GetVersionFiles
GetVersionFiles(c) == <<c.Version.File>> \o c.AdditionalFiles

(***************************************************************************)
(* internal/git: the tags of the repository.                               *)
(***************************************************************************)
\* Regexp.MatchString
MatchString(pattern, s) == FindStringSubmatch(pattern, s).ok

\* the tags the pattern matches
MatchingTags(ts, pattern) == {t \in ts : MatchString(pattern, t)}

\* Client.GetLatestTag: the matching tags sorted in descending order of
\* their names as strings, and the first of them; the names of the tags of
\* a repository differ, so the first is the greatest name
GetLatestTag(ts, pattern) ==
    IF ~Compiles(pattern) THEN [tag |-> <<>>, err |-> TRUE]
    ELSE LET matchingTags == MatchingTags(ts, pattern)
         IN  IF matchingTags = {} THEN [tag |-> <<>>, err |-> FALSE]
             ELSE [tag |-> CHOOSE t \in matchingTags :
                               \A u \in matchingTags \ {t} : TextGreater(t, u),
                   err |-> FALSE]

\* Client.ExtractVersionFromTag: the first group of the pattern's match
ExtractVersionFromTag(tag, pattern) ==
    IF ~Compiles(pattern) THEN [version |-> <<>>, err |-> TRUE]
    ELSE LET m == FindStringSubmatch(pattern, tag)
         IN  IF ~m.ok THEN [version |-> <<>>, err |-> TRUE]
             ELSE [version |-> m.caps.first, err |-> FALSE]

(***************************************************************************)
(* Inputs of the bump resolver.                                            *)
(***************************************************************************)
TFix     == <<"F", "i", "x">>
TfixLow  == <<"f", "i", "x">>
TFeature == <<"F", "e", "a", "t", "u", "r", "e">>
TBreaking == <<"B", "r", "e", "a", "k", "i", "n", "g">>
TDocs    == <<"D", "o", "c", "s">>

\* a parser.Commit with the fields the resolver does not read left empty
MkCommit(t, f) ==
    [Hash |-> <<>>, Message |-> <<>>, Type |-> t, Scope |-> <<>>, Board |-> <<>>,
     Description |-> <<>>, ForceMajor |-> f]

RuleKeys == {TFix, TFeature}

\* every table over a subset of RuleKeys, each key mapped to a bump kind
RuleTables == UNION {[K -> BumpKinds] : K \in SUBSET RuleKeys}

BumpCommitTypes == {TFix, TfixLow, TFeature}

BumpCommits == {MkCommit(t, f) : t \in BumpCommitTypes, f \in BOOLEAN}

CommitLists(n) == UNION {[1..k -> BumpCommits] : k \in 0..n}

NoText == <<>>
NoOut  == [op |-> "none"]

\* the commit of a specification that renders none
NoCommit == MkCommit(<<>>, FALSE)

\* the arguments of ParseMultiple and Commit.String when they are not called
NoParseArgs ==
    /\ messages = <<>>
    /\ recv = NoCommit

\* the changelog file of a specification that generates none
NoChangelog == changelog = [exists |-> FALSE, content |-> <<>>]

\* the state of a specification in which the tool does not run
NoRun ==
    /\ cfgFile = [present |-> FALSE]
    /\ dryRun = FALSE
    /\ isRepo = TRUE
    /\ tags = {}
    /\ log = [resolved |-> TRUE, messages |-> <<>>]
    /\ files = <<>>
    /\ head = <<>>
    /\ pc = "idle"
    /\ cfg = NoConfig
    /\ currentVersion = NoText
    /\ parsedCommits = <<>>
    /\ newVersion = NoText
    /\ bumpType = BumpNone
    /\ updatedFiles = <<>>
    /\ err = NoError

InitBump ==
    /\ rules \in RuleTables
    /\ commits \in CommitLists(MaxCommits)
    /\ format = "semver"
    /\ current = NoText
    /\ other = NoText
    /\ msg = NoText
    /\ out = NoOut
    /\ NoParseArgs
    /\ NoRun
    /\ NoChangelog

DetermineBumpCall ==
    /\ out' = [op |-> "DetermineBump", bump |-> DetermineBump(rules, commits)]
    /\ UNCHANGED <<rules, format, commits, current, other, msg>>
    /\ UNCHANGED <<parseVars, runVars, changelog>>

NextBump == DetermineBumpCall

SpecBump == InitBump /\ [][NextBump]_vars

(***************************************************************************)
(* Inputs of the calculator: every text of up to MaxVerLen characters over *)
(* VersionChars and the longer version strings of version_test.go with     *)
(* variations of them.  A text holding a number written with a leading     *)
(* zero ("01") is left out: releases of the semver library differ on it.   *)
(***************************************************************************)
VersionChars == {"v", ".", "-", "a", "0", "9"}

HasLeadingZero(s) ==
    \E i \in 1..(Len(s) - 1) :
        /\ s[i] = "0" /\ s[i + 1] \in Digits
        /\ (i = 1 \/ s[i - 1] \notin Digits)

LongVersions ==
    { <<"1", ".", "2", ".", "3">>,
      <<"v", "1", ".", "2", ".", "3">>,
      <<"0", ".", "0", ".", "1">>,
      <<"1", "0", ".", "2", "0", ".", "3", "0">>,
      <<"1", ".", "9", ".", "9">>,
      <<"1", ".", "2", ".", "3", ".", "4">>,
      <<"v", "v", "1", ".", "2", ".", "3">>,
      <<"1", ".", "2", ".", "3", "-", "r", "c", ".", "1">>,
      <<"v", "1", ".", "2", ".", "3", "-", "a">>,
      <<"1", ".", "2", ".", "3", "+", "b">>,
      <<"1", ".", "2", "-", "a", "+", "b">>,
      <<"1", ".", "2", ".", "3", "+">>,
      <<"V", "1", ".", "2", ".", "3">>,
      <<"1", ".", "2", ".", "3", " ">>,
      <<"i", "n", "v", "a", "l", "i", "d">> }

VersionInputs ==
    {s \in TextsUpTo(VersionChars, MaxVerLen) \cup LongVersions : ~HasLeadingZero(s)}

Formats == {"semver", "v-prefix"}

\* the rule table of version_test.go
TestRules ==
    (TFix :> BumpPatch) @@ (TFeature :> BumpMinor) @@ (TBreaking :> BumpMajor)

CalcCommits ==
    {MkCommit(TFix, FALSE), MkCommit(TFeature, FALSE), MkCommit(TDocs, FALSE),
     MkCommit(TBreaking, FALSE), MkCommit(TFix, TRUE)}

CalcCommitLists ==
    {<<>>} \cup {<<c>> : c \in CalcCommits}
           \cup {<<MkCommit(TDocs, FALSE), c>> : c \in CalcCommits}

InitCalc ==
    /\ rules = TestRules
    /\ format \in Formats
    /\ commits = <<>>
    /\ current \in VersionInputs
    /\ other = NoText
    /\ msg = NoText
    /\ out = NoOut
    /\ NoParseArgs
    /\ NoRun
    /\ NoChangelog

CalculateCall ==
    \E cs \in CalcCommitLists :
        /\ commits' = cs
        /\ out' = [op |-> "Calculate"] @@ Calculate(rules, format, current, cs)
        /\ UNCHANGED <<rules, format, current, other, msg>>
        /\ UNCHANGED <<parseVars, runVars, changelog>>

NextCalc == CalculateCall

SpecCalc == InitCalc /\ [][NextCalc]_vars

InitValid ==
    /\ rules = TestRules
    /\ format = "semver"
    /\ commits = <<>>
    /\ current \in VersionInputs
    /\ other = NoText
    /\ msg = NoText
    /\ out = NoOut
    /\ NoParseArgs
    /\ NoRun
    /\ NoChangelog

IsValidCall ==
    /\ out' = [op |-> "IsValid", valid |-> IsValid(current)]
    /\ UNCHANGED <<rules, format, commits, current, other, msg>>
    /\ UNCHANGED <<parseVars, runVars, changelog>>

NextValid == IsValidCall

SpecValid == InitValid /\ [][NextValid]_vars

(***************************************************************************)
(* Inputs of Compare: versions of one to three numbers, each 0..MaxPart or *)
(* 10, with and without the prefix and a pre-release part, and some longer *)
(* pre-release parts, build metadata and invalid texts.                    *)
(***************************************************************************)
PartTexts == {FormatUint(n) : n \in (0..MaxPart) \cup {10}}

NumberTexts ==
    PartTexts
    \cup {a \o <<".">> \o b : a, b \in PartTexts}
    \cup {a \o <<".">> \o b \o <<".">> \o c : a, b, c \in PartTexts}

CompareExtras ==
    { <<>>, <<"x">>, <<"v">>, <<"1", ".">>, <<"1", ".", "1", ".", "1", ".", "1">>,
      <<"v", "v", "1">>, <<"v", "v", "v", "1">>,
      <<"9">>, <<"1", ".", "0", ".", "0", "+", "b">>,
      <<"1", ".", "0", ".", "0", "-", "b">>,
      <<"1", ".", "0", ".", "0", "-", "a", ".", "1">>,
      <<"1", ".", "0", ".", "0", "-", "9">>,
      <<"1", ".", "0", ".", "0", "-", "1", "0">>,
      <<"1", ".", "0", ".", "0", "-", "a", "+", "b">> }

CompareInputs ==
    {p \o n \o x : p \in {<<>>, <<"v">>}, n \in NumberTexts,
                   x \in {<<>>, <<"-", "a">>}}
    \cup CompareExtras

\* the second argument is drawn without the prefix variation
CompareOthers ==
    {n \o x : n \in NumberTexts, x \in {<<>>, <<"-", "a">>}} \cup CompareExtras

InitCompare ==
    /\ rules = TestRules
    /\ format = "semver"
    /\ commits = <<>>
    /\ current \in CompareInputs
    /\ other \in CompareOthers
    /\ msg = NoText
    /\ out = NoOut
    /\ NoParseArgs
    /\ NoRun
    /\ NoChangelog

CompareCall ==
    /\ out' = [op |-> "Compare"] @@ Compare(current, other)
    /\ UNCHANGED <<rules, format, commits, current, other, msg>>
    /\ UNCHANGED <<parseVars, runVars, changelog>>

NextCompare == CompareCall

SpecCompare == InitCompare /\ [][NextCompare]_vars

(***************************************************************************)
(* Inputs of the parser: messages put together from a head (a board, a     *)
(* text that is no board, a type), an optional scope in parentheses, a     *)
(* separator and a body (a wrapped type, a bare type or none, and a        *)
(* description), with and without blanks around the parts.                 *)
(***************************************************************************)
\* non-empty texts over cs of length at most n
Words(cs, n) == TextsUpTo(cs, n) \ {<<>>}

\* the boards: up to MaxBoardPart letters B, a hyphen, as many digits 1
Boards ==
    {l \o <<"-">> \o d : l \in Words({"B"}, MaxBoardPart),
                         d \in Words({"1"}, MaxBoardPart)}

\* heads that are no board: lowercase, no digits, no hyphen
NearBoards == {<<"b", "-", "1">>, <<"B", "-">>, <<"B", "1">>}

GenericHeads == {<<"F", "i", "x">>, <<"F", "i", "x", "!">>, <<>>}

\* scopes: plain, with a comma, with blanks around it, with a parenthesis
Scopes == {<<"x">>, <<"x", ",", "y">>, <<" ", "x", " ">>, <<"a", "(", "b">>}

\* the types of the bare forms: words
BareTypes == {<<"F", "i", "x">>, <<"T", "_", "1">>}

\* the types of the wrapped form: words and a text of two words
WrappedTypes == BareTypes \cup {<<"B", "u", "g", " ", "F", "i", "x">>}

\* wrapped types with blanks around them, and a blank one
LooseTypes == {<<" ", "F", "i", "x", " ">>, <<" ">>}

\* descriptions: non-empty, one line, no blank at either end
Descs ==
    {<<"m", "s", "g">>, <<"a", " ", "b">>, <<"a", ":", " ", "b">>,
     <<"<", "x", ">", " ", "y">>}

\* descriptions that begin with a blank, and the missing description
LooseDescs == {<<" ", "m", "s", "g">>, <<>>}

ScopeParts ==
    {<<>>, <<"(", ")">>} \cup {<<"(">> \o sc \o <<")">> : sc \in Scopes}

Separators == {<<":", " ">>, <<":">>}

Bodies ==
    {<<"<">> \o t \o <<">">> \o sp \o d :
        t \in WrappedTypes \cup LooseTypes, sp \in {<<" ">>, <<>>},
        d \in Descs \cup LooseDescs}
    \cup {t \o <<" ">> \o d : t \in BareTypes, d \in Descs \cup LooseDescs}
    \cup Descs

\* messages with the words of the scan, with a mark before the colon, of
\* several lines, and without a colon
MarkedMessages ==
    { <<"B", "r", "e", "a", "k", "i", "n", "g", ":", " ", "x">>,
      <<"B", "-", "1", ":", " ", "<", "F", "i", "x", ">", " ", "B", "R", "E", "A", "K", "I", "N", "G", " ", "x">>,
      <<"B", "-", "1", "(", "x", ")", ":", " ", "F", "i", "x", " ", "B", "r", "e", "a", "k", "i", "n", "g", " ", "y">>,
      <<"B", "-", "1", ":", " ", "F", "i", "x", " ", "b", "r", "e", "a", "k", "i", "n", "g">>,
      <<"F", "i", "x", ":", " ", "B", "R", "e", "a", "k", "i", "n", "g">>,
      <<"B", "R", "E", "A", "K", "I", "N", "G">>,
      <<"f", "i", "x", " ", "B", "r", "e", "a", "k", "i", "n", "g">>,
      <<"F", "i", "x", "!", " ", ":", " ", "x">>,
      <<"!", ":", " ", "x">>,
      <<"F", "i", "x", " ", "!", ":", " ", "x">>,
      <<"F", "i", "x", "!", "!", ":", " ", "x">>,
      <<"F", "i", "x", "(", "x", ")", "!", ":", " ", "y">>,
      <<"F", "i", "x", " ", "!", "x", ":", " ", "y">>,
      <<"F", "i", "x", ":", " ", "a", "\n", "b">>,
      <<"F", "i", "x", "!", ":", " ", "a", "\n", "b">>,
      <<":">>,
      <<>>,
      <<" ">>,
      <<"F", "i", "x", ":">>,
      <<"a", ":", "b", ":", "c">>,
      <<"F", "i", "x">>,
      <<" ", "F", "i", "x", " ", ":", " ", "x", " ">>,
      <<"B", "r", "e", "a", "k", "i", "n", "g", "(", "x", ")", ":", " ", "y">>,
      <<"T", "_", "1", "(", "a", " ", "b", ")", ":", " ", "y">>,
      <<"F", "i", "x", "(", "x", ")", ":", " ", " ", "y", " ">>,
      <<"F", "i", "x", "(", "x", ")", ":", " ", "a", "\n", "b">> }

Messages ==
    {h \o sc \o sep \o b :
        h \in Boards \cup NearBoards \cup GenericHeads, sc \in ScopeParts,
        sep \in Separators, b \in Bodies}
    \cup {<<" ">> \o h \o <<":", " ">> \o b \o <<" ", "\n">> :
            h \in Boards, b \in Bodies}
    \cup Descs
    \cup MarkedMessages

InitParse ==
    /\ rules = TestRules
    /\ format = "semver"
    /\ commits = <<>>
    /\ current = NoText
    /\ other = NoText
    /\ msg \in Messages
    /\ out = NoOut
    /\ NoParseArgs
    /\ NoRun
    /\ NoChangelog

ParseCall ==
    /\ out' = [op |-> "Parse", err |-> FALSE] @@ Parse(msg)
    /\ UNCHANGED <<rules, format, commits, current, other, msg>>
    /\ UNCHANGED <<parseVars, runVars, changelog>>

\* the commit Parse returned is rendered
StringCall ==
    /\ out.op = "Parse"
    /\ out' = [op |-> "String", commit |-> out.commit, via |-> out.via,
               text |-> String(out.commit)]
    /\ UNCHANGED <<rules, format, commits, current, other, msg>>
    /\ UNCHANGED <<parseVars, runVars, changelog>>

NextParse == ParseCall \/ StringCall

SpecParse == InitParse /\ [][NextParse]_vars

(***************************************************************************)
(* Inputs of ParseMultiple: every list of up to MaxMessages messages, some *)
(* of which parse to a type and some of which do not.                      *)
(***************************************************************************)
ListMessages ==
    { <<"F", "e", "a", "t", "u", "r", "e", "(", "a", "u", "t", "h", ")", ":", " ", "a", "d", "d">>,
      <<"F", "i", "x", "(", "a", "p", "i", ")", ":", " ", "x">>,
      <<"I", "n", "v", "a", "l", "i", "d", " ", "c", "o", "m", "m", "i", "t", " ", "m", "e", "s", "s", "a", "g", "e">>,
      <<>>,
      <<" ">>,
      <<"B", "-", "1", ":", " ", "<", " ", ">", " ", "x">>,
      <<"!", ":", " ", "x">>,
      <<"B", "-", "2", ":", " ", "F", "i", "x", " ", "y">> }

MessageLists == UNION {[1..k -> ListMessages] : k \in 0..MaxMessages}

InitMultiple ==
    /\ rules = TestRules
    /\ format = "semver"
    /\ commits = <<>>
    /\ current = NoText
    /\ other = NoText
    /\ msg = NoText
    /\ out = NoOut
    /\ messages \in MessageLists
    /\ recv = NoCommit
    /\ NoRun
    /\ NoChangelog

ParseMultipleCall ==
    /\ out' = [op |-> "ParseMultiple", commits |-> ParseMultiple(messages)]
    /\ UNCHANGED <<rules, format, commits, current, other, msg>>
    /\ UNCHANGED <<parseVars, runVars, changelog>>

NextMultiple == ParseMultipleCall

SpecMultiple == InitMultiple /\ [][NextMultiple]_vars

(***************************************************************************)
(* Inputs of Commit.String: commits with each field empty or not.          *)
(***************************************************************************)
CommitRecords ==
    {[Hash |-> <<>>, Message |-> <<>>, Type |-> t, Scope |-> sc, Board |-> b,
      Description |-> d, ForceMajor |-> f] :
        t \in {<<>>, <<"F", "i", "x">>, <<"B", "u", "g", " ", "F", "i", "x">>},
        sc \in {<<>>, <<"x">>, <<" ">>},
        b \in {<<>>, <<"B", "-", "1">>},
        d \in {<<>>, <<"m", "s", "g">>, <<"a", " ", "b">>},
        f \in BOOLEAN}

InitString ==
    /\ rules = TestRules
    /\ format = "semver"
    /\ commits = <<>>
    /\ current = NoText
    /\ other = NoText
    /\ msg = NoText
    /\ out = NoOut
    /\ messages = <<>>
    /\ recv \in CommitRecords
    /\ NoRun
    /\ NoChangelog

StringOfCall ==
    /\ out' = [op |-> "String", text |-> String(recv)]
    /\ UNCHANGED <<rules, format, commits, current, other, msg>>
    /\ UNCHANGED <<parseVars, runVars, changelog>>

NextString == StringOfCall

SpecString == InitString /\ [][NextString]_vars

(***************************************************************************)
(* Inputs of GetLatestTag: a repository with any of the tags of TagNames,  *)
(* and a configuration with one of the tag patterns.                       *)
(***************************************************************************)
TagNames ==
    { <<"v", "1", ".", "9", ".", "0">>,
      <<"v", "1", ".", "1", "0", ".", "0">>,
      <<"v", "1", ".", "2", ".", "3">>,
      <<"1", ".", "2", ".", "4">>,
      <<"v", "2", ".", "0", ".", "0">>,
      <<"9", ".", "0", ".", "0">>,
      <<"v", "1", ".", "2">>,
      <<"l", "a", "t", "e", "s", "t">> }

TagPatterns == {DefaultTagPattern, LooseTagPattern, BadTagPattern}

InitTags ==
    /\ rules = TestRules
    /\ format = "semver"
    /\ commits = <<>>
    /\ current = NoText
    /\ other = NoText
    /\ msg = NoText
    /\ out = NoOut
    /\ NoParseArgs
    /\ cfgFile = [present |-> FALSE]
    /\ dryRun = FALSE
    /\ isRepo = TRUE
    /\ tags \in SUBSET TagNames
    /\ log = [resolved |-> TRUE, messages |-> <<>>]
    /\ files = <<>>
    /\ head = <<>>
    /\ pc = "idle"
    /\ cfg \in {[DefaultConfig EXCEPT !.Detection.TagPattern = p] : p \in TagPatterns}
    /\ currentVersion = NoText
    /\ parsedCommits = <<>>
    /\ newVersion = NoText
    /\ bumpType = BumpNone
    /\ updatedFiles = <<>>
    /\ err = NoError
    /\ NoChangelog

GetLatestTagCall ==
    /\ out' = [op |-> "GetLatestTag"] @@ GetLatestTag(tags, cfg.Detection.TagPattern)
    /\ UNCHANGED <<rules, format, commits, current, other, msg>>
    /\ UNCHANGED <<parseVars, runVars, changelog>>

NextTags == GetLatestTagCall

SpecTags == InitTags /\ [][NextTags]_vars

(***************************************************************************)
(* cmd/commet: a run of the tool, one action for each of its steps.  The   *)
(* run works on the configuration file, the tags of the repository, the    *)
(* commits GetCommits walks and the version files; it ends at pc = "done"  *)
(* with the error it returns in err.                                       *)
(***************************************************************************)
\* a version file: absent, holding a version under its key (none when the
\* text is empty), or present and not a document the updater can read
Missing == [exists |-> FALSE, parses |-> FALSE, version |-> <<>>]
Holds(v) == [exists |-> TRUE, parses |-> TRUE, version |-> v]
Broken == [exists |-> TRUE, parses |-> FALSE, version |-> <<>>]

\* updater.New: the extensions it knows
Supported(name) == name \in {"composer.json", "package.json"}

\* detectVersion, the loop over the strategies from the i-th on
RECURSIVE detectVersionFrom(_, _, _, _)
detectVersionFrom(c, ts, fs, i) ==
    IF i > Len(c.Detection.Strategies) THEN c.Version.Initial
    ELSE LET strategy == c.Detection.Strategies[i]
             latest   == GetLatestTag(ts, c.Detection.TagPattern)
             fromTag  == ExtractVersionFromTag(latest.tag, c.Detection.TagPattern)
             file     == fs[c.Version.File]
         IN  IF /\ strategy = "git-tags"
                /\ ~latest.err /\ latest.tag # <<>> /\ ~fromTag.err
             THEN fromTag.version
             ELSE IF /\ strategy = "version-file"
                     /\ file.exists /\ Supported(c.Version.File)
                     /\ file.parses /\ file.version # <<>>
             THEN file.version
             ELSE detectVersionFrom(c, ts, fs, i + 1)

\* detectVersion
detectVersion(c, ts, fs) == detectVersionFrom(c, ts, fs, 1)

\* the loop of run over the commits: those that parse to a type, each with
\* the hash of its commit, here its position in the log
RECURSIVE ParseCommitsFrom(_, _, _)
ParseCommitsFrom(ms, i, parsed) ==
    IF i > Len(ms) THEN parsed
    ELSE LET c == Parse(ms[i]).commit
         IN  ParseCommitsFrom(ms, i + 1,
                 IF IsValidCommit(c)
                 THEN Append(parsed, [c EXCEPT !.Hash = FormatUint(i)])
                 ELSE parsed)

\* the loop of run over the version files from the i-th on: the files as
\* they are left, the files written and the error that ended the loop
RECURSIVE UpdateFilesFrom(_, _, _, _, _)
UpdateFilesFrom(names, i, fs, updated, ver) ==
    IF i > Len(names) THEN [files |-> fs, updatedFiles |-> updated, err |-> NoError]
    ELSE IF ~fs[names[i]].exists
         THEN UpdateFilesFrom(names, i + 1, fs, updated, ver)
    ELSE IF ~Supported(names[i])
         THEN [files |-> fs, updatedFiles |-> updated,
               err |-> "failed to create updater"]
    ELSE IF ~fs[names[i]].parses
         THEN [files |-> fs, updatedFiles |-> updated, err |-> "failed to update"]
    ELSE UpdateFilesFrom(names, i + 1, [fs EXCEPT ![names[i]] = Holds(ver)],
                         Append(updated, names[i]), ver)

\* strings.ReplaceAll(cfg.Git.TagFormat, "{version}", newVersion), the
\* format being the text before the placeholder
TagName(c, ver) == c.Git.TagFormat \o ver

\* run returns
Return(e) ==
    /\ pc' = "done"
    /\ err' = e

\* what run never writes: the inputs of the run
runInputs == <<cfgFile, dryRun, isRepo, log>>

\* the arguments of the other operations, which a run leaves alone
callVars ==
    <<rules, format, commits, current, other, msg, out, parseVars, changelog>>

\* config.Load
LoadConfig ==
    /\ pc = "load"
    /\ LET r == Load(cfgFile)
       IN  IF r.err # NoError
           THEN Return("failed to load config") /\ UNCHANGED cfg
           ELSE cfg' = r.cfg /\ pc' = "open" /\ UNCHANGED err
    /\ UNCHANGED <<runInputs, callVars, tags, files, head, currentVersion,
                   parsedCommits, newVersion, bumpType, updatedFiles>>

\* git.IsGitRepository and git.NewClient
OpenRepository ==
    /\ pc = "open"
    /\ IF ~isRepo THEN Return("not a git repository")
       ELSE pc' = "detect" /\ UNCHANGED err
    /\ UNCHANGED <<runInputs, callVars, tags, files, head, cfg, currentVersion,
                   parsedCommits, newVersion, bumpType, updatedFiles>>

\* detectVersion
DetectVersion ==
    /\ pc = "detect"
    /\ currentVersion' = detectVersion(cfg, tags, files)
    /\ pc' = "commits"
    /\ UNCHANGED <<runInputs, callVars, tags, files, head, cfg, parsedCommits,
                   newVersion, bumpType, updatedFiles, err>>

\* gitClient.GetCommits and the test for no commits
GetCommits ==
    /\ pc = "commits"
    /\ IF ~log.resolved THEN Return("failed to get commits")
       ELSE IF Len(log.messages) = 0 THEN Return(NoError)
       ELSE pc' = "parse" /\ UNCHANGED err
    /\ UNCHANGED <<runInputs, callVars, tags, files, head, cfg, currentVersion,
                   parsedCommits, newVersion, bumpType, updatedFiles>>

\* the parsing of the commits and the test for no valid commits
ParseCommits ==
    /\ pc = "parse"
    /\ parsedCommits' = ParseCommitsFrom(log.messages, 1, <<>>)
    /\ IF Len(parsedCommits') = 0 THEN Return(NoError)
       ELSE pc' = "calculate" /\ UNCHANGED err
    /\ UNCHANGED <<runInputs, callVars, tags, files, head, cfg, currentVersion,
                   newVersion, bumpType, updatedFiles>>

\* a calculation step that does not look at the dry-run flag
CalculateVersionNoDryRun ==
    /\ pc = "calculate"
    /\ LET r == Calculate(cfg.BumpRules, cfg.Version.Format, currentVersion,
                          parsedCommits)
       IN  /\ newVersion' = r.version
           /\ bumpType' = r.bump
           /\ IF r.err THEN Return("failed to calculate version")
              ELSE IF r.bump = BumpNone THEN Return(NoError)
              ELSE pc' = "update" /\ UNCHANGED err
    /\ UNCHANGED <<runInputs, callVars, tags, files, head, cfg, currentVersion,
                   parsedCommits, updatedFiles>>

\* calculator.Calculate, the test for no bump and the dry run
CalculateVersion ==
    /\ pc = "calculate"
    /\ LET r == Calculate(cfg.BumpRules, cfg.Version.Format, currentVersion,
                          parsedCommits)
       IN  /\ newVersion' = r.version
           /\ bumpType' = r.bump
           /\ IF r.err THEN Return("failed to calculate version")
              ELSE IF r.bump = BumpNone THEN Return(NoError)
              ELSE IF dryRun THEN Return(NoError)
              ELSE pc' = "update" /\ UNCHANGED err
    /\ UNCHANGED <<runInputs, callVars, tags, files, head, cfg, currentVersion,
                   parsedCommits, updatedFiles>>

\* the update of the version files
UpdateVersionFiles ==
    /\ pc = "update"
    /\ LET r == UpdateFilesFrom(GetVersionFiles(cfg), 1, files, <<>>, newVersion)
       IN  /\ files' = r.files
           /\ updatedFiles' = r.updatedFiles
           /\ IF r.err # NoError THEN Return(r.err)
              ELSE pc' = "commit" /\ UNCHANGED err
    /\ UNCHANGED <<runInputs, callVars, tags, head, cfg, currentVersion,
                   parsedCommits, newVersion, bumpType>>

\* gitClient.CreateCommit when auto_commit is set and a file was written;
\* the worktree may refuse the commit
CreateCommit ==
    /\ pc = "commit"
    /\ IF cfg.Git.AutoCommit /\ Len(updatedFiles) > 0
       THEN \/ /\ head' = Append(head, [files |-> updatedFiles,
                                          version |-> newVersion])
               /\ pc' = "tag" /\ UNCHANGED err
            \/ /\ Return("failed to create commit")
               /\ UNCHANGED head
       ELSE pc' = "tag" /\ UNCHANGED <<head, err>>
    /\ UNCHANGED <<runInputs, callVars, tags, files, cfg, currentVersion,
                   parsedCommits, newVersion, bumpType, updatedFiles>>

\* gitClient.CreateTag when auto_tag is set; a tag of this name may exist
CreateTag ==
    /\ pc = "tag"
    /\ IF cfg.Git.AutoTag
       THEN IF TagName(cfg, newVersion) \in tags
            THEN Return("failed to create tag") /\ UNCHANGED tags
            ELSE /\ tags' = tags \cup {TagName(cfg, newVersion)}
                 /\ Return(NoError)
       ELSE Return(NoError) /\ UNCHANGED tags
    /\ UNCHANGED <<runInputs, callVars, files, head, cfg, currentVersion,
                   parsedCommits, newVersion, bumpType, updatedFiles>>

(***************************************************************************)
(* Inputs of a run: configuration files that set the format and the git    *)
(* switches, or one other setting; repositories with and without tags;     *)
(* logs with commits that bump, that do not, and that do not parse.        *)
(***************************************************************************)
FormatsWritten == {"", "semver", "v-prefix", "calver"}

\* the settings a configuration file writes
SwitchSettings ==
    {("format" :> f) @@ ("auto_commit" :> ac) @@ ("auto_tag" :> at) :
        f \in FormatsWritten, ac \in BOOLEAN, at \in BOOLEAN}

BaseSettings ==
    ("format" :> "semver") @@ ("auto_commit" :> TRUE) @@ ("auto_tag" :> TRUE)

OtherSettings ==
    {("initial" :> v) @@ BaseSettings :
        v \in {<<>>, <<"d", "e", "v">>, <<"1", ".", "2", ".", "3">>}}
    \cup {("strategies" :> st) @@ BaseSettings :
            st \in {<<>>, <<"version-file">>, <<"none">>}}
    \cup {("tag_pattern" :> tp) @@ BaseSettings :
            tp \in {LooseTagPattern, BadTagPattern}}
    \cup {("additional_files" :> af) @@ BaseSettings :
            af \in {<<"package.json">>, <<"VERSION">>}}
    \cup {("file" :> "") @@ BaseSettings, ("key" :> "") @@ BaseSettings,
          ("bump_rules" :> [null |-> TRUE, table |-> <<>>]) @@ BaseSettings,
          ("bump_rules" :> [null |-> FALSE, table |-> (TDocs :> BumpPatch)])
              @@ BaseSettings}

ConfigFiles ==
    {[present |-> FALSE], [present |-> TRUE, readable |-> FALSE]}
    \cup {[present |-> TRUE, readable |-> TRUE, written |-> w] :
            w \in SwitchSettings \cup OtherSettings}

RunTagSets ==
    { {},
      {<<"v", "1", ".", "2", ".", "3">>},
      {<<"v", "1", ".", "2", ".", "3">>, <<"v", "1", ".", "2", ".", "4">>},
      {<<"v", "1", ".", "9", ".", "0">>, <<"v", "1", ".", "1", "0", ".", "0">>, <<"l", "a", "t", "e", "s", "t">>} }

RunMessageLists ==
    { <<>>,
      <<<<"F", "i", "x", ":", " ", "a">>>>,
      <<<<"D", "o", "c", "s", ":", " ", "a">>>>,
      <<<<"n", "o", " ", "c", "o", "l", "o", "n">>>>,
      <<<<"F", "e", "a", "t", "u", "r", "e", "!", ":", " ", "x">>, <<"F", "i", "x", ":", " ", "a">>>>,
      <<<<"D", "o", "c", "s", ":", " ", "x">>, <<"F", "e", "a", "t", "u", "r", "e", "(", "y", ")", ":", " ", "z">>, <<>>>>,
      <<<<"F", "i", "x", ":", " ", "B", "R", "E", "A", "K", "I", "N", "G", " ", "a">>>>,
      <<<<"B", "r", "e", "a", "k", "i", "n", "g", " ", "a", "p", "i">>>>,
      <<<<"B", "R", "E", "A", "K", "I", "N", "G", " ", "a", "p", "i">>, <<"F", "i", "x", ":", " ", "a">>>> }

RunLogs ==
    {[resolved |-> FALSE, messages |-> <<>>]}
    \cup {[resolved |-> TRUE, messages |-> ms] : ms \in RunMessageLists}

\* the version files: composer.json, package.json and a file VERSION that
\* no updater reads
RunFiles ==
    {("composer.json" :> a) @@ ("package.json" :> b) @@ ("VERSION" :> Broken) :
        a \in {Missing, Holds(<<"1", ".", "0", ".", "0">>), Holds(<<"d", "e", "v">>),
               Broken},
        b \in {Holds(<<"1", ".", "0", ".", "0">>)}}
    \cup {("composer.json" :> Holds(<<"1", ".", "0", ".", "0">>))
          @@ ("package.json" :> Broken) @@ ("VERSION" :> Broken)}

InitRun ==
    /\ rules = TestRules
    /\ format = "semver"
    /\ commits = <<>>
    /\ current = NoText
    /\ other = NoText
    /\ msg = NoText
    /\ out = NoOut
    /\ NoParseArgs
    /\ cfgFile \in ConfigFiles
    /\ dryRun \in BOOLEAN
    /\ isRepo \in BOOLEAN
    /\ tags \in RunTagSets
    /\ log \in RunLogs
    /\ files \in RunFiles
    /\ isRepo = FALSE => (tags = {} /\ log.messages = <<>>)
    /\ head = <<>>
    /\ pc = "load"
    /\ cfg = NoConfig
    /\ currentVersion = NoText
    /\ parsedCommits = <<>>
    /\ newVersion = NoText
    /\ bumpType = BumpNone
    /\ updatedFiles = <<>>
    /\ err = NoError
    /\ NoChangelog

NextRun ==
    \/ LoadConfig
    \/ OpenRepository
    \/ DetectVersion
    \/ GetCommits
    \/ ParseCommits
    \/ CalculateVersion
    \/ UpdateVersionFiles
    \/ CreateCommit
    \/ CreateTag

SpecRun == InitRun /\ [][NextRun]_vars

(***************************************************************************)
(* The resolver and the calculator on a loaded configuration: the rule     *)
(* table is what a configuration file writes over the default table.  A    *)
(* BumpType is a string, and the file may write any string as a rule.      *)
(***************************************************************************)
RuleValues == BumpKinds \cup {"Major"}

WrittenTables == UNION {[K -> RuleValues] : K \in SUBSET {TFix, TDocs}}

RuleFiles ==
    {[present |-> TRUE, readable |-> TRUE,
      written |-> ("format" :> f) @@ ("bump_rules" :> [null |-> FALSE, table |-> t])] :
        f \in {"semver", "v-prefix"}, t \in WrittenTables}

LoadedCommits == {MkCommit(t, f) : t \in {TFix, TDocs}, f \in BOOLEAN}

LoadedCommitLists == UNION {[1..k -> LoadedCommits] : k \in 0..MaxCommits}

LoadedVersions == {<<"1", ".", "2", ".", "3">>, <<"v", "1", ".", "2">>}

InitLoaded ==
    /\ rules = TestRules
    /\ format = "semver"
    /\ commits \in LoadedCommitLists
    /\ current \in LoadedVersions
    /\ other = NoText
    /\ msg = NoText
    /\ out = NoOut
    /\ NoParseArgs
    /\ cfgFile \in RuleFiles
    /\ dryRun = FALSE
    /\ isRepo = TRUE
    /\ tags = {}
    /\ log = [resolved |-> TRUE, messages |-> <<>>]
    /\ files = <<>>
    /\ head = <<>>
    /\ pc = "idle"
    /\ Load(cfgFile).err = NoError
    /\ cfg = Load(cfgFile).cfg
    /\ currentVersion = NoText
    /\ parsedCommits = <<>>
    /\ newVersion = NoText
    /\ bumpType = BumpNone
    /\ updatedFiles = <<>>
    /\ err = NoError
    /\ NoChangelog

\* Calculator.DetermineBump of the calculator NewCalculator(cfg) makes
DetermineBumpLoaded ==
    /\ out' = [op |-> "DetermineBump",
               bump |-> DetermineBump(cfg.BumpRules, commits)]
    /\ UNCHANGED <<rules, format, commits, current, other, msg>>
    /\ UNCHANGED <<parseVars, runVars, changelog>>

\* Calculator.Calculate of the same calculator
CalculateLoaded ==
    /\ out' = [op |-> "Calculate"]
               @@ Calculate(cfg.BumpRules, cfg.Version.Format, current, commits)
    /\ UNCHANGED <<rules, format, commits, current, other, msg>>
    /\ UNCHANGED <<parseVars, runVars, changelog>>

NextLoaded == DetermineBumpLoaded \/ CalculateLoaded

SpecLoaded == InitLoaded /\ [][NextLoaded]_vars

(***************************************************************************)
(* The changelog generator.  The file is the text it holds; an emoji and   *)
(* the backquote are each one character of the text, written here by a     *)
(* name between colons.                                                    *)
(***************************************************************************)
\* strings.Split(s, c) for a separator c of one character
RECURSIVE Split(_, _)
Split(s, c) ==
    LET i == IndexFrom(s, 1, c)
    IN  IF i > Len(s) THEN <<s>>
        ELSE <<SubSeq(s, 1, i - 1)>> \o Split(Drop(s, i + 1), c)

\* the typeMetadata of groupCommits
typeMetadata ==
    (<<"F", "e", "a", "t", "u", "r", "e">> :>
          [emoji |-> <<":sparkles:">>, description |-> <<"F", "e", "a", "t", "u", "r", "e", "s">>])
    @@ (<<"F", "i", "x">> :>
          [emoji |-> <<":bee:">>, description |-> <<"B", "u", "g", " ", "F", "i", "x", "e", "s">>])
    @@ (<<"R", "e", "f", "a", "c", "t", "o", "r">> :>
          [emoji |-> <<":wrench:">>, description |-> <<"R", "e", "f", "a", "c", "t", "o", "r", "i", "n", "g">>])
    @@ (<<"D", "o", "c", "s">> :>
          [emoji |-> <<":books:">>, description |-> <<"D", "o", "c", "u", "m", "e", "n", "t", "a", "t", "i", "o", "n">>])
    @@ (<<"S", "t", "y", "l", "e">> :>
          [emoji |-> <<":nail_care:">>, description |-> <<"S", "t", "y", "l", "i", "n", "g">>])
    @@ (<<"B", "u", "i", "l", "d">> :>
          [emoji |-> <<":building_construction:">>, description |-> <<"B", "u", "i", "l", "d", " ", "S", "y", "s", "t", "e", "m">>])
    @@ (<<"T", "e", "s", "t", "s">> :>
          [emoji |-> <<":test_tube:">>, description |-> <<"T", "e", "s", "t", "s">>])
    @@ (<<"C", "o", "n", "f">> :>
          [emoji |-> <<":toolbox:">>, description |-> <<"C", "o", "n", "f", "i", "g", "u", "r", "a", "t", "i", "o", "n">>])
    @@ (<<"M", "i", "g", "r", "a", "t", "i", "o", "n", "s">> :>
          [emoji |-> <<":file_cabinet:">>, description |-> <<"M", "i", "g", "r", "a", "t", "i", "o", "n", "s">>])
    @@ (<<"S", "u", "b", "m", "o", "d", "u", "l", "e">> :>
          [emoji |-> <<":label:">>, description |-> <<"S", "u", "b", "m", "o", "d", "u", "l", "e", "s">>])
    @@ (<<"B", "r", "e", "a", "k", "i", "n", "g">> :>
          [emoji |-> <<":boom:">>, description |-> <<"B", "r", "e", "a", "k", "i", "n", "g", " ", "C", "h", "a", "n", "g", "e", "s">>])

\* the typeOrder of groupCommits
typeOrder ==
    <<<<"B", "r", "e", "a", "k", "i", "n", "g">>,
      <<"F", "e", "a", "t", "u", "r", "e">>,
      <<"F", "i", "x">>,
      <<"R", "e", "f", "a", "c", "t", "o", "r">>,
      <<"D", "o", "c", "s">>,
      <<"S", "t", "y", "l", "e">>,
      <<"B", "u", "i", "l", "d">>,
      <<"T", "e", "s", "t", "s">>,
      <<"C", "o", "n", "f">>,
      <<"M", "i", "g", "r", "a", "t", "i", "o", "n", "s">>,
      <<"S", "u", "b", "m", "o", "d", "u", "l", "e">>>>

\* the commits of cs that have the type ty, in their order
RECURSIVE CommitsOfType(_, _)
CommitsOfType(cs, ty) ==
    IF cs = <<>> THEN <<>>
    ELSE (IF Head(cs).Type = ty THEN <<Head(cs)>> ELSE <<>>)
         \o CommitsOfType(Tail(cs), ty)

\* the CommitGroup groupCommits makes for the type ty
GroupOf(cs, ty) ==
    [Type |-> ty,
     Emoji |-> IF ty \in DOMAIN typeMetadata THEN typeMetadata[ty].emoji ELSE <<>>,
     Description |-> IF ty \in DOMAIN typeMetadata
                     THEN typeMetadata[ty].description ELSE ty,
     Commits |-> CommitsOfType(cs, ty)]

\* the groups of the types of tys that cs holds, in the order of tys
RECURSIVE GroupsOf(_, _)
GroupsOf(cs, tys) ==
    IF tys = <<>> THEN <<>>
    ELSE (IF CommitsOfType(cs, Head(tys)) # <<>> THEN <<GroupOf(cs, Head(tys))>>
          ELSE <<>>)
         \o GroupsOf(cs, Tail(tys))

\* the types of cs that typeOrder does not list
OtherTypes(cs) ==
    {cs[i].Type : i \in 1..Len(cs)}
        \ ({typeOrder[i] : i \in 1..Len(typeOrder)} \cup {<<>>})

\* the orders in which the range over the map may visit the other types
MapOrders(tys) ==
    {o \in [1..Cardinality(tys) -> tys] : \A ty \in tys : \E i \in DOMAIN o : o[i] = ty}

\* groupCommits: the groups of typeOrder, then those of the other types in
\* the order rest, then the commits without a type
groupCommits(cs, rest) ==
    GroupsOf(cs, typeOrder) \o GroupsOf(cs, rest)
    \o (IF CommitsOfType(cs, <<>>) # <<>>
        THEN <<[Type |-> <<>>, Emoji |-> <<":memo:">>,
                Description |-> <<"O", "t", "h", "e", "r", " ", "C", "h", "a", "n", "g", "e", "s">>,
                Commits |-> CommitsOfType(cs, <<>>)]>>
        ELSE <<>>)

\* formatCommit
formatCommit(c) ==
    <<"-", " ">>
    \o Join((IF c.Scope # <<>> THEN << <<"*", "*">> \o c.Scope \o <<"*", "*">> >>
             ELSE <<>>) \o <<c.Description>>, <<":", " ">>)
    \o (IF c.Board # <<>> THEN <<" ", "(">> \o c.Board \o <<")">> ELSE <<>>)
    \o (IF c.Hash # <<>>
        THEN <<" ", "[", ":backquote:">> \o c.Hash \o <<":backquote:", "]">>
        ELSE <<>>)
    \o <<"\n">>

\* the lines formatEntry writes for the commits cs
RECURSIVE formatCommits(_)
formatCommits(cs) ==
    IF cs = <<>> THEN <<>> ELSE formatCommit(Head(cs)) \o formatCommits(Tail(cs))

\* the sections formatEntry writes for the groups
RECURSIVE formatGroups(_)
formatGroups(groups) ==
    IF groups = <<>> THEN <<>>
    ELSE LET group == Head(groups)
         IN  (IF group.Commits = <<>> THEN <<>>
              ELSE <<"#", "#", "#", " ">> \o group.Emoji \o <<" ">>
                   \o group.Description \o <<"\n", "\n">>
                   \o formatCommits(group.Commits) \o <<"\n">>)
             \o formatGroups(Tail(groups))

\* formatEntry, today being the date time.Now() formats
formatEntry(version, groups, today) ==
    <<"#", "#", " ", "[">> \o version \o <<"]", " ", "-", " ">> \o today
    \o <<"\n", "\n">> \o formatGroups(groups)

\* the content of a changelog that does not exist yet
NewChangelog ==
    <<"#", " ", "C", "h", "a", "n", "g", "e", "l", "o", "g", "\n", "\n", "A", "l", "l", " ", "n", "o", "t", "a", "b", "l", "e", " ", "c", "h", "a", "n", "g", "e", "s", " ", "t", "o", " ", "t", "h", "i", "s", " ", "p", "r", "o", "j", "e", "c", "t", " ", "w", "i", "l", "l", " ", "b", "e", " ", "d", "o", "c", "u", "m", "e", "n", "t", "e", "d", " ", "i", "n", " ", "t", "h", "i", "s", " ", "f", "i", "l", "e", ".", "\n", "\n">>

\* the prefix of a version heading
HeadingPrefix == <<"#", "#", " ", "[">>

\* the first loop of appendToFile from line i on (lines counted from 1):
\* what it wrote and the headerEnd it found, counted from 0
RECURSIVE HeaderLoop(_, _, _)
HeaderLoop(lines, i, written) ==
    IF i > Len(lines) THEN [written |-> written, headerEnd |-> 0]
    ELSE IF HasPrefix(lines[i], HeadingPrefix)
         THEN [written |-> written, headerEnd |-> i - 1]
    ELSE HeaderLoop(lines, i + 1,
                    IF i - 1 < Len(lines) - 1 THEN written \o lines[i] \o <<"\n">>
                    ELSE written)

\* the second loop of appendToFile from line i on (lines counted from 1)
RECURSIVE TailLoop(_, _)
TailLoop(lines, i) ==
    IF i > Len(lines) THEN <<>>
    ELSE (IF i = Len(lines) /\ lines[i] = <<>> THEN <<>>
          ELSE lines[i] \o <<"\n">>)
         \o TailLoop(lines, i + 1)

\* appendToFile: the content it writes to the file
appendToFile(file, entry) ==
    LET content   == IF file.exists THEN file.content ELSE NewChangelog
        lines     == Split(content, "\n")
        found     == HeaderLoop(lines, 1, <<>>)
        headerEnd == IF found.headerEnd = 0 THEN Len(lines) ELSE found.headerEnd
    IN  found.written
        \o (IF found.headerEnd = 0 THEN <<"\n">> ELSE <<>>)
        \o entry
        \o TailLoop(lines, headerEnd + 1)

(***************************************************************************)
(* Inputs of the generator: changelog files of up to MaxLines lines, with  *)
(* and without a final newline, with version headings at any line; commit  *)
(* lists with listed types, other types and commits without a type.        *)
(***************************************************************************)
ChangelogLines ==
    {<<>>, <<"#", " ", "C">>, <<"#", "#", " ", "[", "1", "]">>, <<"-", " ", "a">>, <<"#", "#", " ", "x">>}

ChangelogContents ==
    {Join(ls, <<"\n">>) : ls \in UNION {[1..k -> ChangelogLines] : k \in 1..MaxLines}}

ChangelogFiles ==
    {[exists |-> FALSE, readable |-> FALSE, content |-> <<>>],
     [exists |-> TRUE, readable |-> FALSE, content |-> <<"#", " ", "C">>]}
    \cup {[exists |-> TRUE, readable |-> TRUE, content |-> c] : c \in ChangelogContents}

ChangelogCommitLists ==
    { <<>>,
      <<[Hash |-> <<"a", "b", "1">>, Message |-> <<>>, Type |-> <<"F", "i", "x">>, Scope |-> <<"a", "p", "i">>,
       Board |-> <<"B", "-", "1">>, Description |-> <<"a">>, ForceMajor |-> FALSE]>>,
      <<[Hash |-> <<>>, Message |-> <<>>, Type |-> <<"F", "e", "a", "t", "u", "r", "e">>, Scope |-> <<>>,
       Board |-> <<>>, Description |-> <<"b">>, ForceMajor |-> FALSE],
        [Hash |-> <<>>, Message |-> <<>>, Type |-> <<>>, Scope |-> <<>>,
       Board |-> <<>>, Description |-> <<"x">>, ForceMajor |-> FALSE],
        [Hash |-> <<"a", "b", "1">>, Message |-> <<>>, Type |-> <<"F", "i", "x">>, Scope |-> <<"a", "p", "i">>,
       Board |-> <<"B", "-", "1">>, Description |-> <<"a">>, ForceMajor |-> FALSE]>>,
      <<[Hash |-> <<>>, Message |-> <<>>, Type |-> <<"Z", "e", "d">>, Scope |-> <<>>,
       Board |-> <<>>, Description |-> <<"z">>, ForceMajor |-> FALSE],
        [Hash |-> <<>>, Message |-> <<>>, Type |-> <<"F", "i", "x">>, Scope |-> <<>>,
       Board |-> <<>>, Description |-> <<"a">>, ForceMajor |-> FALSE]>>,
      <<[Hash |-> <<>>, Message |-> <<>>, Type |-> <<"Z", "e", "d">>, Scope |-> <<>>,
       Board |-> <<>>, Description |-> <<"z">>, ForceMajor |-> FALSE],
        [Hash |-> <<"c", "d", "2">>, Message |-> <<>>, Type |-> <<"Y", "a", "k">>, Scope |-> <<>>,
       Board |-> <<>>, Description |-> <<"y">>, ForceMajor |-> FALSE]>> }

\* the dates time.Now() may format
Dates == {<<"2", "0", "2", "6", "-", "0", "1", "-", "0", "2">>}

InitChangelog ==
    /\ rules = TestRules
    /\ format = "semver"
    /\ commits \in ChangelogCommitLists
    /\ current = <<"1", ".", "2", ".", "4">>
    /\ other = NoText
    /\ msg = NoText
    /\ out = NoOut
    /\ NoParseArgs
    /\ NoRun
    /\ changelog \in ChangelogFiles

\* the number of calls of Generate so far
Generations == IF out.op = "none" THEN 0 ELSE out.calls

\* Generator.Generate with the version current and the commits; the content
\* of the file before the call and the entry are kept with what it returns
Generate ==
    /\ Generations < MaxGenerations
    /\ \E today \in Dates, rest \in MapOrders(OtherTypes(commits)) :
          LET entry  == formatEntry(current, groupCommits(commits, rest), today)
              result == [op |-> "Generate", calls |-> Generations + 1,
                         existed |-> changelog.exists,
                         before |-> changelog.content, entry |-> entry]
          IN  IF changelog.exists /\ ~changelog.readable
              THEN /\ out' = result @@ [err |-> "failed to read changelog"]
                   /\ UNCHANGED changelog
              ELSE /\ out' = result @@ [err |-> NoError]
                   /\ changelog' = [exists |-> TRUE, readable |-> TRUE,
                                    content |-> appendToFile(changelog, entry)]
    /\ UNCHANGED <<rules, format, commits, current, other, msg>>
    /\ UNCHANGED <<parseVars, runVars>>

NextChangelog == Generate

SpecChangelog == InitChangelog /\ [][NextChangelog]_vars

(***************************************************************************)
(* Claims about the bump resolver, checked under SpecBump.                 *)
(***************************************************************************)
\* the rank of a bump kind in the order none < patch < minor < major
Rank(b) == CASE b = BumpNone -> 0 [] b = BumpPatch -> 1
             [] b = BumpMinor -> 2 [] b = BumpMajor -> 3

\* the bump kinds the rule table gives the commits of cs (none when absent)
MappedBumps(rs, cs) ==
    {IF cs[i].Type \in DOMAIN rs THEN rs[cs[i].Type] ELSE BumpNone : i \in 1..Len(cs)}

\* the highest of a set of bump kinds, none for the empty set
Highest(bs) ==
    IF bs = {} THEN BumpNone
    ELSE CHOOSE b \in bs : \A c \in bs : Rank(c) <= Rank(b)

AnyForceMajor(cs) == \E i \in 1..Len(cs) : cs[i].ForceMajor

Returned(op) == out.op = op

\* C1: DetermineBump returns major when some commit has ForceMajor set,
\* otherwise the highest bump the table maps the commits' types to (a type
\* absent from the table counting as none), and none for the empty list.
C1_DetermineBumpIsHighest ==
    Returned("DetermineBump") =>
        out.bump = IF AnyForceMajor(commits) THEN BumpMajor
                   ELSE Highest(MappedBumps(rules, commits))

\* C1 witness: a list without ForceMajor holding a commit whose type is not
\* in the table next to a mapped one resolved to the mapped, non-none bump.
C1_Witness ==
    /\ Returned("DetermineBump")
    /\ Len(commits) >= 2
    /\ ~AnyForceMajor(commits)
    /\ \E i \in 1..Len(commits) : commits[i].Type \notin DOMAIN rules
    /\ out.bump = BumpMinor

\* the lists obtained from cs by reordering it
Reorderings(cs) ==
    {[i \in 1..Len(cs) |-> cs[p[i]]] :
        p \in {q \in [1..Len(cs) -> 1..Len(cs)] :
                  \A i, j \in 1..Len(cs) : q[i] = q[j] => i = j}}

\* C2: every permutation of the commit list resolves to the same bump.
C2_OrderInsensitive ==
    Returned("DetermineBump") =>
        \A ps \in Reorderings(commits) : DetermineBump(rules, ps) = out.bump

\* C2 witness: three commits mapped to different bumps, the last one with
\* ForceMajor set, were resolved.
C2_Witness ==
    /\ Returned("DetermineBump")
    /\ Len(commits) = 3
    /\ commits[3].ForceMajor /\ ~commits[1].ForceMajor /\ ~commits[2].ForceMajor
    /\ GetBumpType(rules, commits[1].Type) = BumpMinor
    /\ GetBumpType(rules, commits[2].Type) = BumpPatch
    /\ out.bump = BumpMajor

\* cs with the commit c put in front of position i (i = Len(cs) + 1 appends)
InsertAt(cs, i, c) == SubSeq(cs, 1, i - 1) \o <<c>> \o SubSeq(cs, i, Len(cs))

\* C3: a commit added at any position whose mapped bump is at least the
\* current result never lowers the result, and a commit added with
\* ForceMajor set makes the result major.
C3_Monotone ==
    Returned("DetermineBump") =>
        \A c \in BumpCommits : \A i \in 1..(Len(commits) + 1) :
            LET after == DetermineBump(rules, InsertAt(commits, i, c))
            IN  /\ Rank(GetBumpType(rules, c.Type)) >= Rank(out.bump)
                    => Rank(after) >= Rank(out.bump)
                /\ c.ForceMajor => after = BumpMajor

\* C3 witness: a list resolved to patch to which a minor-mapped commit and a
\* ForceMajor commit can be added.
C3_Witness ==
    /\ Returned("DetermineBump")
    /\ Len(commits) >= 2
    /\ out.bump = BumpPatch
    /\ \E c \in BumpCommits : GetBumpType(rules, c.Type) = BumpMinor

(***************************************************************************)
(* Claims about the calculator, checked under SpecCalc, and about IsValid,  *)
(* checked under SpecValid.                                                *)
(***************************************************************************)
\* the bump the commits resolve to, as the resolver's contract states it
ResolvedBump ==
    IF AnyForceMajor(commits) THEN BumpMajor
    ELSE Highest(MappedBumps(rules, commits))

\* the current version as the library reads it
CurrentVer == parseVersion(current).ver
CurrentOk  == parseVersion(current).ok

\* the text MAJOR.MINOR.PATCH of three numbers
TripleText(a, b, c) ==
    FormatUint(a) \o <<".">> \o FormatUint(b) \o <<".">> \o FormatUint(c)

\* the returned version without the prefix the format may have put on it
Unprefixed(s) == IF Len(s) > 0 /\ s[1] = "v" THEN Drop(s, 2) ELSE s

\* C4 as claimed: every valid current version with a bump that is not none
\* gives (M+1,0,0), (M,m+1,0) or (M,m,p+1), the same bump and no error.
C4_BumpArithmeticAnyVersion ==
    (Returned("Calculate") /\ CurrentOk /\ ResolvedBump # BumpNone) =>
        /\ ~out.err
        /\ out.bump = ResolvedBump
        /\ Unprefixed(out.version) =
             CASE out.bump = BumpMajor -> TripleText(CurrentVer.major + 1, 0, 0)
               [] out.bump = BumpMinor ->
                    TripleText(CurrentVer.major, CurrentVer.minor + 1, 0)
               [] OTHER ->
                    TripleText(CurrentVer.major, CurrentVer.minor,
                               CurrentVer.patch + 1)

\* C4 amended: as C4, except that a patch bump of a version that carries a
\* pre-release part returns (M,m,p), the release of that pre-release.
C4_BumpArithmetic ==
    (Returned("Calculate") /\ CurrentOk /\ ResolvedBump # BumpNone) =>
        /\ ~out.err
        /\ out.bump = ResolvedBump
        /\ Unprefixed(out.version) =
             CASE out.bump = BumpMajor -> TripleText(CurrentVer.major + 1, 0, 0)
               [] out.bump = BumpMinor ->
                    TripleText(CurrentVer.major, CurrentVer.minor + 1, 0)
               [] OTHER ->
                    TripleText(CurrentVer.major, CurrentVer.minor,
                               IF CurrentVer.pre = <<>>
                               THEN CurrentVer.patch + 1 ELSE CurrentVer.patch)

\* C4 witness: a minor bump of the two-component version 9.9 gave 9.10.0.
C4_Witness ==
    /\ Returned("Calculate")
    /\ current = <<"9", ".", "9">>
    /\ out.bump = BumpMinor
    /\ Unprefixed(out.version) = <<"9", ".", "1", "0", ".", "0">>

\* no commit of the list bumps: no ForceMajor, every type unmapped or none
NothingBumps ==
    \A i \in 1..Len(commits) :
        /\ ~commits[i].ForceMajor
        /\ (commits[i].Type \in DOMAIN rules => rules[commits[i].Type] = BumpNone)

\* C5: when the commits resolve to no bump, Calculate returns the valid
\* input string itself, with bump none and no error.
C5_NoneReturnsInput ==
    (Returned("Calculate") /\ CurrentOk /\ NothingBumps) =>
        /\ out.version = current
        /\ out.bump = BumpNone
        /\ ~out.err

\* C5 witness: a v-prefixed two-component version came back unchanged
\* under format semver from a list holding a commit that does not bump.
C5_Witness ==
    /\ Returned("Calculate")
    /\ NothingBumps /\ Len(commits) > 0
    /\ format = "semver"
    /\ current = <<"v", "9", ".", "0">>
    /\ out.version = current

\* C6: an invalid current version gives an error, the empty version and
\* bump none, whatever the commits are.
C6_InvalidVersionIsError ==
    (Returned("Calculate") /\ ~CurrentOk) =>
        out.err /\ out.version = <<>> /\ out.bump = BumpNone

\* C6 witness: an invalid version was rejected with commits that do not bump.
C6_Witness ==
    /\ Returned("Calculate")
    /\ ~CurrentOk /\ Len(current) > 0
    /\ NothingBumps
    /\ out.err

\* a text of exactly three numbers joined by dots
IsTripleText(t) ==
    /\ Len(t) > 0
    /\ \A i \in 1..Len(t) : t[i] \in Digits \cup {"."}
    /\ t[1] # "." /\ t[Len(t)] # "."
    /\ \A i \in 1..(Len(t) - 1) : ~(t[i] = "." /\ t[i + 1] = ".")
    /\ Cardinality({i \in 1..Len(t) : t[i] = "."}) = 2

\* C7: a bumped version is MAJOR.MINOR.PATCH, prefixed with v exactly when
\* the format is "v-prefix", whatever prefix the input carried.
C7_PrefixFollowsFormat ==
    (Returned("Calculate") /\ ~out.err /\ out.bump # BumpNone) =>
        IF format = "v-prefix"
        THEN HasPrefix(out.version, <<"v">>) /\ IsTripleText(Drop(out.version, 2))
        ELSE IsTripleText(out.version)

\* C7 witness: a v-prefixed input was bumped under format semver.
C7_Witness ==
    /\ Returned("Calculate")
    /\ HasPrefix(current, <<"v">>)
    /\ format = "semver"
    /\ ~out.err /\ out.bump = BumpPatch

\* a text of one to three numbers joined by dots
IsDottedNumbers(t) ==
    /\ Len(t) > 0
    /\ \A i \in 1..Len(t) : t[i] \in Digits \cup {"."}
    /\ t[1] # "." /\ t[Len(t)] # "."
    /\ \A i \in 1..(Len(t) - 1) : ~(t[i] = "." /\ t[i + 1] = ".")
    /\ Cardinality({i \in 1..Len(t) : t[i] = "."}) <= 2

\* a text of non-empty identifiers over [0-9A-Za-z-] joined by dots
IsIdentifiers(t) ==
    /\ Len(t) > 0
    /\ \A i \in 1..Len(t) : t[i] \in Digits \cup Letters \cup {"-", "."}
    /\ t[1] # "." /\ t[Len(t)] # "."
    /\ \A i \in 1..(Len(t) - 1) : ~(t[i] = "." /\ t[i + 1] = ".")

\* t is dotted numbers, then optionally - and identifiers, then optionally
\* + and identifiers
IsSemverText(t) ==
    \E i \in 1..(Len(t) + 1) : \E j \in i..(Len(t) + 1) :
        /\ IsDottedNumbers(SubSeq(t, 1, i - 1))
        /\ (i = j \/ (t[i] = "-" /\ IsIdentifiers(SubSeq(t, i + 1, j - 1))))
        /\ (j = Len(t) + 1 \/ (t[j] = "+" /\ IsIdentifiers(Drop(t, j + 1))))

\* C8 as claimed: IsValid holds exactly of the texts that are, after one
\* optional leading v, one to three numbers joined by dots.
C8_ValidIffDottedNumbers ==
    Returned("IsValid") => (out.valid <=> IsDottedNumbers(Unprefixed(current)))

\* C8 amended: IsValid holds exactly of the texts that are, after up to two
\* leading v (one removed by IsValid, one accepted by the library), one to
\* three numbers joined by dots, optionally followed by a pre-release part
\* (- and dot-joined identifiers) and by build metadata (+ and identifiers).
C8_ValidIffSemver ==
    Returned("IsValid") =>
        (out.valid <=> IsSemverText(Unprefixed(Unprefixed(current))))

\* C8 witness: a doubly prefixed version was found valid.
C8_Witness ==
    /\ Returned("IsValid")
    /\ current = <<"v", "v", "9">>
    /\ out.valid

(***************************************************************************)
(* Claims about Compare, checked under SpecCompare.                        *)
(***************************************************************************)
OtherVer == parseVersion(other).ver

\* the order of two triples of numbers: first difference decides
TripleOrder(a, b) ==
    IF a = b THEN 0
    ELSE LET i == CHOOSE k \in 1..3 : a[k] # b[k] /\ \A j \in 1..(k - 1) : a[j] = b[j]
         IN  IF a[i] < b[i] THEN -1 ELSE 1

Triple(v) == <<v.major, v.minor, v.patch>>

BothValid == IsValid(current) /\ IsValid(other)

\* C9 as claimed: valid arguments are compared by their triples alone.
C9_CompareByTriplesAlone ==
    (Returned("Compare") /\ BothValid) =>
        /\ ~out.err
        /\ out.value = TripleOrder(Triple(CurrentVer), Triple(OtherVer))

\* C9 amended: valid arguments without pre-release part are compared by
\* their triples, whatever prefix and build metadata they carry; with equal
\* triples an argument with a pre-release part is below one without; the
\* result is -1, 0 or 1, swapping the arguments negates it, equal arguments
\* and arguments that differ by a leading v give 0.  An invalid argument
\* gives an error.
C9_CompareOrder ==
    Returned("Compare") =>
        IF BothValid
        THEN /\ ~out.err
             /\ out.value \in {-1, 0, 1}
             /\ (CurrentVer.pre = <<>> /\ OtherVer.pre = <<>>)
                    => out.value = TripleOrder(Triple(CurrentVer), Triple(OtherVer))
             /\ Triple(CurrentVer) # Triple(OtherVer)
                    => out.value = TripleOrder(Triple(CurrentVer), Triple(OtherVer))
             /\ (Triple(CurrentVer) = Triple(OtherVer)
                    /\ CurrentVer.pre # <<>> /\ OtherVer.pre = <<>>)
                    => out.value = -1
             /\ Compare(other, current).value = 0 - out.value
             /\ current = other => out.value = 0
             /\ current = <<"v">> \o other => out.value = 0
        ELSE out.err

\* C9 witness: the prefixed v1.1.1 was found lower than 1.10.
C9_Witness ==
    /\ Returned("Compare")
    /\ current = <<"v", "1", ".", "1", ".", "1">>
    /\ other = <<"1", ".", "1", "0">>
    /\ out.value = -1 /\ ~out.err

(***************************************************************************)
(* Claims about the parser, checked under SpecParse.                       *)
(***************************************************************************)
\* BOARD[(SCOPE)]: <TYPE> DESC, the scope left out when sc is empty
BoardWrappedForm(b, sc, t, d) ==
    b \o (IF sc = <<>> THEN <<>> ELSE <<"(">> \o sc \o <<")">>)
      \o <<":", " ", "<">> \o t \o <<">", " ">> \o d

\* BOARD(SCOPE): TYPE DESC
BoardScopeForm(b, sc, t, d) ==
    b \o <<"(">> \o sc \o <<")", ":", " ">> \o t \o <<" ">> \o d

\* BOARD: TYPE DESC
BoardBareForm(b, t, d) == b \o <<":", " ">> \o t \o <<" ">> \o d

ParsedAs(b, sc, t, d) ==
    /\ out.commit.Board = b
    /\ out.commit.Scope = sc
    /\ out.commit.Type = t
    /\ out.commit.Description = d

\* C10: a message of one of the three board forms (TYPE a word, or in the
\* wrapped form a text without > and without blanks around it; SCOPE any
\* non-empty text without a closing parenthesis; DESC a non-empty line
\* without blanks around it) is parsed by the pattern of its form into its
\* board, type and description and its scope as written, never by the
\* generic pattern or the fallback.
C10_BoardForms ==
    Returned("Parse") =>
        \A b \in {x \in Boards : HasPrefix(msg, x \o <<":">>)
                                    \/ HasPrefix(msg, x \o <<"(">>)} :
          \A d \in Descs :
            /\ \A t \in WrappedTypes : \A sc \in Scopes \cup {<<>>} :
                   msg = BoardWrappedForm(b, sc, t, d)
                       => ParsedAs(b, sc, t, d) /\ out.via = 1
            /\ \A t \in BareTypes : \A sc \in Scopes :
                   msg = BoardScopeForm(b, sc, t, d)
                       => ParsedAs(b, sc, t, d) /\ out.via = 2
            /\ \A t \in BareTypes :
                   msg = BoardBareForm(b, t, d)
                       => ParsedAs(b, <<>>, t, d) /\ out.via = 3

\* C10 witness: B-1(x,y): <Fix> msg was parsed with its scope x,y.
C10_Witness ==
    /\ Returned("Parse")
    /\ msg = <<"B", "-", "1", "(", "x", ",", "y", ")", ":", " ",
               "<", "F", "i", "x", ">", " ", "m", "s", "g">>
    /\ out.commit.Scope = <<"x", ",", "y">>
    /\ out.commit.Board = <<"B", "-", "1">>
    /\ out.via = 1

\* the message holds one of the two words the scan looks for
HasBreakingWord(m) == Contains(m, TextBreaking) \/ Contains(m, TextBREAKING)

\* m holds a colon
HasColon(m) == \E i \in 1..Len(m) : m[i] = ":"

\* the position of the first colon of m
FirstColon(m) == CHOOSE i \in 1..Len(m) : m[i] = ":" /\ \A j \in 1..(i - 1) : m[j] # ":"

\* the text left of the first colon, blanks around it removed
LeftOfColon(m) == TrimSpace(SubSeq(m, 1, FirstColon(m) - 1))

\* the text right of the first colon, blanks around it removed
RightOfColon(m) == TrimSpace(SubSeq(m, FirstColon(m) + 1, Len(m)))

\* the generic pattern matched a message with ! right after its leading word
GenericMarked ==
    /\ out.via = 4
    /\ LET m == TrimSpace(msg)
           n == RunLength(m, 1, ClassWord)
       IN  n + 1 <= Len(m) /\ m[n + 1] = "!"

\* the fallback split a message whose text left of the first colon ends in !
FallbackMarked ==
    /\ out.via = 0
    /\ HasColon(msg)
    /\ HasSuffix(LeftOfColon(msg), <<"!">>)

\* C11: Parse sets ForceMajor exactly when the message holds Breaking or
\* BREAKING, or the generic pattern matched with ! right after the type, or
\* the fallback was used and the trimmed text left of the first colon ends
\* in !; in every other case ForceMajor is false.
C11_ForceMajorIff ==
    Returned("Parse") =>
        (out.commit.ForceMajor <=>
            (HasBreakingWord(msg) \/ GenericMarked \/ FallbackMarked))

\* C11 witness: B-1: <Fix> BREAKING x was parsed by the first pattern as a
\* Fix with ForceMajor set by the scan alone.
C11_Witness ==
    /\ Returned("Parse")
    /\ out.via = 1
    /\ out.commit.Type = TFix
    /\ HasBreakingWord(msg)
    /\ out.commit.ForceMajor

\* s with one ! at its end removed
StripMark(s) == IF HasSuffix(s, <<"!">>) THEN SubSeq(s, 1, Len(s) - 1) ELSE s

\* C12: Parse returns a commit and no error for every message.  When no
\* pattern matched and the message holds a colon, the type is the trimmed
\* text left of the first colon with one ! at its end removed (ForceMajor
\* set when there was one) and the description the trimmed text right of
\* it; without a colon, type, scope, board and description are empty and
\* ForceMajor tells whether the scan found one of its words.
C12_FallbackSplitsAtColon ==
    Returned("Parse") =>
        /\ ~out.err
        /\ out.commit.Message = msg
        /\ (out.via = 0 /\ HasColon(msg)) =>
               /\ out.commit.Type = StripMark(LeftOfColon(msg))
               /\ out.commit.Description = RightOfColon(msg)
               /\ HasSuffix(LeftOfColon(msg), <<"!">>) => out.commit.ForceMajor
        /\ (out.via = 0 /\ ~HasColon(msg)) =>
               /\ out.commit.Type = <<>>
               /\ out.commit.Scope = <<>>
               /\ out.commit.Board = <<>>
               /\ out.commit.Description = <<>>
               /\ out.commit.ForceMajor = HasBreakingWord(msg)
        /\ (out.via # 0) =>
               \E i \in 1..Len(patterns) :
                   out.via = i /\ FindStringSubmatch(patterns[i], TrimSpace(msg)).ok

\* C12 witness: Fix(x)!: y matched no pattern and was split at its colon
\* into the type Fix(x), the mark removed, and the description y.
C12_Witness ==
    /\ Returned("Parse")
    /\ msg = <<"F", "i", "x", "(", "x", ")", "!", ":", " ", "y">>
    /\ out.via = 0
    /\ out.commit.Type = <<"F", "i", "x", "(", "x", ")">>
    /\ out.commit.Description = <<"y">>
    /\ out.commit.ForceMajor

(***************************************************************************)
(* Claims about ParseMultiple, checked under SpecMultiple.                 *)
(***************************************************************************)
\* the Parse results of the messages, one for each message, in their order
ParseResults == [i \in 1..Len(messages) |-> Parse(messages[i]).commit]

HasType(c) == c.Type # <<>>

\* C13: ParseMultiple returns exactly the Parse results that have a type,
\* in the order of their messages: no returned commit is without a type,
\* no message that parses to a type is left out, and the others are
\* dropped.
C13_ParseMultipleFilters ==
    Returned("ParseMultiple") =>
        /\ out.commits = SelectSeq(ParseResults, HasType)
        /\ \A i \in 1..Len(out.commits) : out.commits[i].Type # <<>>
        /\ Len(out.commits) =
               Cardinality({i \in 1..Len(messages) : ParseResults[i].Type # <<>>})

\* C13 witness: of three messages the two with a type were returned in
\* their order and the one between them, which matches the first pattern
\* with a blank type, was dropped.
C13_Witness ==
    /\ Returned("ParseMultiple")
    /\ Len(messages) = 3
    /\ messages[2] = <<"B", "-", "1", ":", " ", "<", " ", ">", " ", "x">>
    /\ Len(out.commits) = 2
    /\ out.commits[1].Message = messages[1]
    /\ out.commits[2].Message = messages[3]
    /\ messages[1] # messages[3]

(***************************************************************************)
(* Claims about Commit.String, checked under SpecString and SpecParse.     *)
(***************************************************************************)
\* a and b with one blank between them, or the one of them that is not empty
Spaced(a, b) ==
    IF a = <<>> THEN b ELSE IF b = <<>> THEN a ELSE a \o <<" ">> \o b

\* the type of c as it is shown: followed by ! when ForceMajor is set
ShownType(c) ==
    IF c.Type = <<>> THEN <<>>
    ELSE IF c.ForceMajor THEN c.Type \o <<"!">> ELSE c.Type

\* the scope of c as it is shown: in parentheses
ShownScope(c) == IF c.Scope = <<>> THEN <<>> ELSE <<"(">> \o c.Scope \o <<")">>

\* C14: String renders the board, the type followed by ! when ForceMajor is
\* set, the scope in parentheses and the description, in this order, with
\* one blank between them; empty fields are left out, and a commit without
\* a type shows no mark.
C14_StringRendersFields ==
    Returned("String") =>
        out.text = Spaced(Spaced(Spaced(recv.Board, ShownType(recv)),
                                 ShownScope(recv)),
                          recv.Description)

\* C14 witness: a commit with a board, ForceMajor and no type was rendered
\* as its board alone.
C14_Witness ==
    /\ Returned("String")
    /\ recv.Type = <<>> /\ recv.ForceMajor
    /\ recv.Scope = <<>> /\ recv.Description = <<>>
    /\ out.text = <<"B", "-", "1">>

\* the parts of a message TYPE(SCOPE): DESC, TYPE being its leading word
TypeEnd(m) == RunLength(m, 1, ClassWord)
ScopeEnd(m) == IndexFrom(m, TypeEnd(m) + 2, ")")
TypeOf(m) == SubSeq(m, 1, TypeEnd(m))
ScopeOf(m) == SubSeq(m, TypeEnd(m) + 2, ScopeEnd(m) - 1)
DescOf(m) == Drop(m, ScopeEnd(m) + 3)

\* m is TYPE(SCOPE): DESC with TYPE a word, SCOPE not empty and without a
\* closing parenthesis, DESC one line that is not blank
WellFormed(m) ==
    /\ TypeEnd(m) >= 1
    /\ TypeEnd(m) + 1 <= Len(m) /\ m[TypeEnd(m) + 1] = "("
    /\ ScopeEnd(m) <= Len(m)
    /\ ScopeOf(m) # <<>>
    /\ ScopeEnd(m) + 2 <= Len(m)
    /\ m[ScopeEnd(m) + 1] = ":" /\ m[ScopeEnd(m) + 2] = " "
    /\ TrimSpace(DescOf(m)) # <<>>
    /\ \A i \in 1..Len(m) : i > ScopeEnd(m) => m[i] # "\n"

IsBoardToken(b) ==
    \E k \in 1..(Len(b) - 2) :
        /\ \A i \in 1..k : b[i] \in UpperLetters
        /\ b[k + 1] = "-"
        /\ \A i \in (k + 2)..Len(b) : b[i] \in Digits

\* m begins with a board token
BeginsWithBoard(m) == \E k \in 1..Len(m) : IsBoardToken(SubSeq(m, 1, k))

\* C19: the board of a parsed commit is empty or is uppercase letters, a
\* hyphen and digits, and then the trimmed message begins with it; a
\* message that does not begin with such a token (lowercase letters, no
\* digits) is handled by the generic pattern or the fallback and gets an
\* empty board.
C19_BoardIsTokenOrEmpty ==
    Returned("Parse") =>
        /\ out.commit.Board # <<>> =>
               /\ IsBoardToken(out.commit.Board)
               /\ HasPrefix(TrimSpace(msg), out.commit.Board)
               /\ out.via \in {1, 2, 3}
        /\ ~BeginsWithBoard(TrimSpace(msg)) =>
               /\ out.commit.Board = <<>>
               /\ out.via \in {0, 4}
        /\ out.via \in {0, 4} => out.commit.Board = <<>>

\* C19 witness: b-1: Fix msg, whose leading token is lowercase, went to the
\* fallback and got the type b-1 and no board.
C19_Witness ==
    /\ Returned("Parse")
    /\ msg = <<"b", "-", "1", ":", " ", "F", "i", "x", " ", "m", "s", "g">>
    /\ out.via = 0
    /\ out.commit.Board = <<>>
    /\ out.commit.Type = <<"b", "-", "1">>

(***************************************************************************)
(* Calculate against Compare, checked under SpecCalc.                      *)
(***************************************************************************)
\* C20: when Calculate applies a bump (patch, minor or major) the version
\* it returns is greater than the current version under Compare; when the
\* bump is none the version it returns compares equal to the current one;
\* it never returns a version that compares lower.
C20_BumpedIsGreater ==
    (Returned("Calculate") /\ ~out.err) =>
        /\ out.bump \in {BumpPatch, BumpMinor, BumpMajor} =>
               Compare(out.version, current) = [value |-> 1, err |-> FALSE]
        /\ out.bump = BumpNone =>
               Compare(out.version, current) = [value |-> 0, err |-> FALSE]
        /\ Compare(current, out.version).value <= 0

\* C20 witness: a patch bump of the pre-release 1.2.3-rc.1 gave 1.2.3, which
\* Compare finds greater.
C20_Witness ==
    /\ Returned("Calculate")
    /\ current = <<"1", ".", "2", ".", "3", "-", "r", "c", ".", "1">>
    /\ out.bump = BumpPatch
    /\ out.version = <<"1", ".", "2", ".", "3">>
    /\ Compare(out.version, current).value = 1

(***************************************************************************)
(* The latest tag, checked under SpecTags.                                 *)
(***************************************************************************)
\* the version the default pattern reads in a tag it matches
TagVersion(t) == TrimPrefix(t, <<"v">>)

\* C17: with the default tag pattern GetLatestTag returns, among the tags
\* the pattern matches, the one whose version is greatest by its numbers
\* (v1.10.0 rather than v1.9.0), and the empty string only when no tag
\* matches.
C17_LatestIsGreatestVersion ==
    (Returned("GetLatestTag") /\ cfg.Detection.TagPattern = DefaultTagPattern) =>
        LET matching == MatchingTags(tags, DefaultTagPattern)
        IN  /\ ~out.err
            /\ (out.tag = <<>>) <=> (matching = {})
            /\ matching # {} =>
                   /\ out.tag \in matching
                   /\ \A u \in matching :
                          Compare(TagVersion(out.tag), TagVersion(u)).value >= 0

(***************************************************************************)
(* Claims about a run of the tool, checked under SpecRun.                  *)
(***************************************************************************)
\* the commits of the log that parse to a type
TypedCommits == ParseMultiple(log.messages)

\* the run got as far as listing the commits
CommitsListed == cfg.loaded /\ isRepo /\ log.resolved

\* the run found no commits
NoCommitsFound == CommitsListed /\ log.messages = <<>>

\* the run found commits, none of which parses to a type
NoValidCommits == CommitsListed /\ log.messages # <<>> /\ TypedCommits = <<>>

\* the run calculated the bump none
NoBumpResolved ==
    /\ CommitsListed
    /\ TypedCommits # <<>>
    /\ pc = "done"
    /\ LET r == Calculate(cfg.BumpRules, cfg.Version.Format, currentVersion,
                          parsedCommits)
       IN  ~r.err /\ r.bump = BumpNone

\* the inputs with which a run is to change nothing: the dry-run flag, no
\* commits, no commit with a type, no commit that bumps
QuietInputs ==
    \/ dryRun
    \/ log.messages = <<>>
    \/ TypedCommits = <<>>
    \/ cfg.loaded /\ DetermineBump(cfg.BumpRules, TypedCommits) = BumpNone

\* no step of a run with these inputs writes a file, commits or tags
QuietRunWritesNothing == [][QuietInputs => UNCHANGED <<tags, files, head>>]_vars

\* the errors of the steps before the version files are written
EarlyErrors ==
    {"failed to load config", "not a git repository", "failed to get commits",
     "failed to calculate version"}

\* C16 as stated: a run with --dry-run, a run that finds no commits, a run
\* in which no commit parses to a type and a run whose bump is none write
\* no file, create no commit and no tag, and return without error (for the
\* dry run: once the configuration is loaded and the commits are listed).
C16_QuietRunNeverFails ==
    /\ QuietRunWritesNothing
    /\ [](pc = "done"
             /\ ((dryRun /\ CommitsListed)
                 \/ NoCommitsFound \/ NoValidCommits \/ NoBumpResolved)
          => err = NoError)

\* C16: such a run writes no file and creates no commit and no tag.  It
\* returns without error when it finds no commits, when no commit parses
\* to a type and when the bump is none.  A dry run returns without error
\* unless a step before the dry-run test fails: the configuration does not
\* load, the directory is no repository, the commits cannot be listed, or
\* the current version cannot be parsed.
C16_QuietRunChangesNothing ==
    /\ QuietRunWritesNothing
    /\ [](pc = "done" /\ (NoCommitsFound \/ NoValidCommits \/ NoBumpResolved)
          => err = NoError)
    /\ [](pc = "done" /\ dryRun => err \in EarlyErrors \cup {NoError})
    /\ [](pc = "done" /\ dryRun /\ CommitsListed
             /\ (TypedCommits = <<>> \/ parseVersion(currentVersion).ok)
          => err = NoError)
    /\ [](pc = "done" /\ dryRun /\ CommitsListed
             /\ TypedCommits # <<>> /\ ~parseVersion(currentVersion).ok
          => err = "failed to calculate version")

\* C16 witness: a dry run with auto_commit and auto_tag set resolved a minor
\* bump and ended without error, the version file as it was, no commit made.
C16_Witness ==
    /\ pc = "done"
    /\ dryRun
    /\ err = NoError
    /\ bumpType = BumpMinor
    /\ cfg.Git.AutoCommit /\ cfg.Git.AutoTag
    /\ files["composer.json"] = Holds(<<"1", ".", "0", ".", "0">>)
    /\ newVersion # files["composer.json"].version
    /\ head = <<>>

\* the format the configuration file writes, the default when it writes none
WrittenFormat ==
    IF cfgFile.present /\ cfgFile.readable /\ "format" \in DOMAIN cfgFile.written
    THEN cfgFile.written["format"]
    ELSE "semver"

\* C18: Calculate is reached only with a configuration whose format is
\* semver or v-prefix, an empty format having been set to semver; with any
\* other format the run ends when the configuration is loaded, with an
\* error and before any version is calculated.
C18_FormatCheckedAtLoad ==
    /\ pc \in {"calculate", "update", "commit", "tag"} =>
           /\ cfg.Version.Format \in {"semver", "v-prefix"}
           /\ WrittenFormat \in {"", "semver", "v-prefix"}
           /\ cfg.Version.Format = IF WrittenFormat = "" THEN "semver"
                                    ELSE WrittenFormat
    /\ (pc # "load" /\ WrittenFormat \notin {"", "semver", "v-prefix"}) =>
           /\ pc = "done"
           /\ err = "failed to load config"
           /\ cfg = NoConfig
           /\ newVersion = NoText /\ bumpType = BumpNone

\* C18 witness: a run whose configuration file writes an empty format
\* reached the calculation with the format semver.
C18_Witness ==
    /\ pc = "calculate"
    /\ WrittenFormat = ""
    /\ cfg.Version.Format = "semver"

(***************************************************************************)
(* Claims about the resolver on a loaded configuration, checked under      *)
(* SpecLoaded.                                                             *)
(***************************************************************************)
\* the version Calculate returns is the current one with the bump b applied
Applied(b) ==
    LET ver == parseVersion(current).ver
    IN  CASE b = BumpMajor -> out.version = formatVersion(cfg.Version.Format, IncMajor(ver))
          [] b = BumpMinor -> out.version = formatVersion(cfg.Version.Format, IncMinor(ver))
          [] b = BumpPatch -> out.version = formatVersion(cfg.Version.Format, IncPatch(ver))
          [] OTHER -> out.version = current

\* the bump Calculate returns is a bump kind and is the one it applied
CalculateReturnsApplied ==
    out.op = "Calculate" => (out.bump \in BumpKinds /\ Applied(out.bump))

\* C21: on every configuration accepted by Validate and every commit list,
\* DetermineBump returns one of none, patch, minor, major, and the bump
\* Calculate returns is the bump that was applied to the version
C21_BumpIsAKind ==
    /\ cfg.loaded
    /\ out.op = "DetermineBump" => out.bump \in BumpKinds
    /\ CalculateReturnsApplied

(***************************************************************************)
(* Claims about the commits of a run, checked under SpecRun.               *)
(***************************************************************************)
\* a retrieved commit message holds Breaking or BREAKING
BreakingRetrieved ==
    \E i \in 1..Len(log.messages) : HasBreakingWord(log.messages[i])

\* a retrieved commit message holds one of them and parses to a type
TypedBreakingRetrieved ==
    \E i \in 1..Len(log.messages) :
        /\ HasBreakingWord(log.messages[i])
        /\ IsValidCommit(Parse(log.messages[i]).commit)

\* the run is past the calculation of the version, or returned without
\* one of the errors of the steps up to it
PastCalculation ==
    /\ pc \in {"update", "commit", "tag", "done"}
    /\ CommitsListed
    /\ err \notin EarlyErrors

\* with a message that holds one of them and parses to a type, the bump of
\* the run is major
TypedBreakingForcesMajor ==
    PastCalculation /\ TypedBreakingRetrieved => bumpType = BumpMajor

\* C22: in a run in which a retrieved commit message holds Breaking or
\* BREAKING the resolved bump is major, also when the message parses to an
\* empty type
C22_BreakingForcesMajor ==
    PastCalculation /\ BreakingRetrieved => bumpType = BumpMajor

\* a step of the run creates the version commit
CommitCreated == head' # head

\* a step of the run creates the version tag
TagCreated == tags' # tags

\* a version file of the configuration was written and holds the new version
SomeFileUpdated ==
    /\ Len(updatedFiles) > 0
    /\ \A i \in 1..Len(updatedFiles) : files[updatedFiles[i]] = Holds(newVersion)

\* the version commit is created only after a version file was updated
CommitOnlyAfterUpdate == [][CommitCreated => SomeFileUpdated]_vars

\* C23: a run creates the version commit or the version tag only after at
\* least one configured version file was updated to the new version; with
\* every configured version file missing it creates neither
C23_WritesOnlyAfterUpdate ==
    [][CommitCreated \/ TagCreated => SomeFileUpdated]_vars

(***************************************************************************)
(* Claims about the patterns of the parser, checked under SpecParse.       *)
(***************************************************************************)
\* the patterns that match the trimmed message
MatchingPatterns(m) ==
    {i \in 1..Len(patterns) : FindStringSubmatch(patterns[i], TrimSpace(m)).ok}

\* the patterns in the opposite order
ReversedPatterns == [i \in 1..Len(patterns) |-> patterns[Len(patterns) + 1 - i]]

\* C24: at most one of the four patterns matches a message, and Parse
\* returns the same commit when the patterns are tried in the opposite order
C24_AtMostOnePattern ==
    out.op = "Parse" =>
        /\ Cardinality(MatchingPatterns(msg)) <= 1
        /\ out.via # 0 => MatchingPatterns(msg) = {out.via}
        /\ ParseWith(ReversedPatterns, msg).commit = out.commit

\* C24 witness: a message with a board and a scope was matched by the
\* second pattern alone, and the opposite order returns the same commit.
C24_Witness ==
    /\ out.op = "Parse"
    /\ out.via = 2
    /\ out.commit.Scope # <<>>
    /\ MatchingPatterns(msg) = {2}
    /\ ParseWith(ReversedPatterns, msg).via = 3
    /\ ParseWith(ReversedPatterns, msg).commit = out.commit

\* the text between the first < of m and the first > after it
WrappedText(m) ==
    LET lt == IndexFrom(m, 1, "<")
        gt == IndexFrom(m, lt + 1, ">")
    IN  SubSeq(m, lt + 1, gt - 1)

\* C25 as stated: whenever one of the four patterns matches, the commit
\* Parse returns has a type; the type is empty only through the fallback
C25_PatternGivesType ==
    out.op = "Parse" /\ out.via # 0 => out.commit.Type # <<>>

\* C25: whenever the second, the third or the fourth pattern matches, the
\* commit has a type.  When the first pattern matches, the type is the text
\* between < and > with the blanks around it removed, which is empty when
\* that text is blank.  The type is empty only through the fallback (no
\* colon, or nothing but blanks and one ! left of the first colon) or
\* through the first pattern with a blank text between < and >.
C25_TypeEmptyOnlyIfBlank ==
    out.op = "Parse" =>
        /\ out.via \in {2, 3, 4} => out.commit.Type # <<>>
        /\ out.via = 1 => out.commit.Type = TrimSpace(WrappedText(TrimSpace(msg)))
        /\ out.via = 0 =>
               (out.commit.Type = <<>>
                   <=> (~HasColon(msg) \/ StripMark(LeftOfColon(msg)) = <<>>))
        /\ out.commit.Type = <<>> => out.via \in {0, 1}

\* C25 witness: B-1: < > msg was matched by the first pattern and parsed
\* to a commit with the board B-1 and an empty type.
C25_Witness ==
    /\ out.op = "Parse"
    /\ out.via = 1
    /\ out.commit.Board = <<"B", "-", "1">>
    /\ WrappedText(msg) = <<" ">>
    /\ out.commit.Type = <<>>
    /\ out.commit.Description # <<>>

(***************************************************************************)
(* Claims about the changelog generator, checked under SpecChangelog.      *)
(***************************************************************************)
\* the lines of a text, the end of the text after a final newline being no
\* line
LinesOf(text) ==
    LET pieces == Split(text, "\n")
    IN  IF pieces[Len(pieces)] = <<>> THEN SubSeq(pieces, 1, Len(pieces) - 1)
        ELSE pieces

\* the lines ls from the i-th to the j-th, each ended by a newline
RECURSIVE Terminated(_, _, _)
Terminated(ls, i, j) ==
    IF i > j THEN <<>> ELSE ls[i] \o <<"\n">> \o Terminated(ls, i + 1, j)

\* the position of the first version heading of ls, Len(ls) + 1 without one
FirstHeading(ls) ==
    IF \E i \in 1..Len(ls) : HasPrefix(ls[i], HeadingPrefix)
    THEN CHOOSE i \in 1..Len(ls) :
             /\ HasPrefix(ls[i], HeadingPrefix)
             /\ \A j \in 1..(i - 1) : ~HasPrefix(ls[j], HeadingPrefix)
    ELSE Len(ls) + 1

\* the lines a are among the lines b from the i-th on, in their order
RECURSIVE Embeds(_, _, _)
Embeds(a, b, i) ==
    IF a = <<>> THEN TRUE
    ELSE IF i > Len(b) THEN FALSE
    ELSE IF Head(a) = b[i] THEN Embeds(Tail(a), b, i + 1)
    ELSE Embeds(a, b, i + 1)

\* Generate wrote the file that existed before
Generated == out.op = "Generate" /\ out.err = NoError /\ out.existed

\* the file holds the lines it held, the entry before the first version
\* heading of those, or after all of them (and at most one empty line) when
\* there is none
EntryInserted ==
    LET old == LinesOf(out.before)
        k   == FirstHeading(old)
    IN  /\ Embeds(old, LinesOf(changelog.content), 1)
        /\ \E sep \in {<<>>, <<"\n">>} :
               /\ k <= Len(old) => sep = <<>>
               /\ changelog.content =
                      Terminated(old, 1, k - 1) \o sep \o out.entry
                      \o Terminated(old, k, Len(old))

\* the file before the call had text before its first version heading, or
\* had no version heading and no text after its last newline
HeaderBeforeHeading ==
    LET old == LinesOf(out.before)
    IN  IF FirstHeading(old) <= Len(old) THEN FirstHeading(old) > 1
        ELSE out.before = <<>> \/ out.before[Len(out.before)] = "\n"

\* for such a file Generate keeps the lines and inserts the entry
KeptWithHeader == Generated /\ HeaderBeforeHeading => EntryInserted

\* C26: after Generate every line of the previous changelog is still
\* there in the same order, and the new entry stands right before the first
\* version heading, or after all existing content when there is none; for
\* every previous content, also one whose first line is a version heading
\* and one whose last line has no newline
C26_GeneratePreservesFile == Generated => EntryInserted

====
